---------------------------- MODULE Spec2Model ----------------------------
(***************************************************************************)
(* Verification model of the Crescent presentation subsystem               *)
(* (creds/src: dlog.rs, groth16rand.rs, rangeproof.rs, lib.rs).            *)
(*                                                                         *)
(* Algebra.  The scalar field F_r is scaled down to the prime field of     *)
(* order P = 12289.  G1 is a cyclic group of order P: a group element is   *)
(* written as its discrete logarithm with respect to the generator, so     *)
(* point addition is addition mod P, scalar multiplication is              *)
(* multiplication mod P and the pairing e(a, b) is a * b mod P.            *)
(*                                                                         *)
(* Randomness.  thread_rng() is a stream Rand(seed, k) of pairwise         *)
(* distinct field elements; the seed is chosen nondeterministically.       *)
(* The Merlin transcript hash is a collision-free random oracle: `ro'      *)
(* records the transcripts hashed so far and the i-th distinct transcript  *)
(* is answered by ChallengeOf(seed, i), pairwise distinct and non-zero.    *)
(* Events of probability about 2^-248 in the program (a hash collision,    *)
(* a zero challenge, two equal random draws) are therefore not behaviours  *)
(* of the model.                                                           *)
(***************************************************************************)
EXTENDS Integers, Naturals, Sequences, FiniteSets, TLC

VARIABLES
    seed,       \* seed of thread_rng() and member of the hash family in this run
    ro,         \* random-oracle table: the distinct transcripts hashed so far
    dl_pc,      \* DLogPoK scenario: "idle", "proved", "verified", "aborted"
    dl_in,      \* arguments of DLogPoK::prove
    dl_proof,   \* the DLogPoK {c, s} handed to verify
    dl_vin,     \* arguments of DLogPoK::verify
    dl_res,     \* return value of DLogPoK::verify
    g_pc,       \* Groth16 show scenario: "ready", "shown", "reshown",
                \* "verified", "aborted"
    g_cs,       \* the holder's ClientState
    g_ctr,      \* number of values read from thread_rng() so far
    g_io,       \* io_types of the last show_groth16 call
    g_show,     \* the ShowGroth16 handed to verify
    g_vin,      \* arguments of ShowGroth16::verify
    g_res,      \* outcome of ShowGroth16::verify
    r_pc,       \* range proof scenario: "ready", "proved", "verified"
    r_n,        \* the number of bits n
    r_open,     \* the PedersenOpening handed to prove_n_bits
    r_proof,    \* the RangeProof handed to verify_n_bits
    r_com,      \* the commitment ped_com handed to verify_n_bits
    r_res,      \* outcome of verify_n_bits
    s_pc,       \* show scenario: "ready", "shown", "error", "aborted", "verified"
    s_cs,       \* the holder's ClientState
    s_ctr,      \* number of values read from thread_rng() so far
    s_in,       \* arguments of create_show_proof and the holder's clock
    s_proof,    \* the ShowProof create_show_proof returned
    s_vin,      \* what verify_show is handed, and the verifier's clock
    s_ret,      \* outcome of verify_show
    a_pc,       \* age scenario: "ready", "computed", "aborted", "shown",
                \* "show_aborted", "verified"
    a_today,    \* Local::now().date_naive(): <<year, month, day>>
    a_age,      \* the age of the call, and of the holder's range_over_year
    a_birth,    \* the holder's date of birth
    a_days,     \* outcome of days_to_be_age
    a_show,     \* the holder's range proofs of birth_date
    a_vin,      \* what the verifier is handed, and the age of its spec
    a_ret,      \* outcome of the verifier
    p_pc,       \* ECDSA proof scenario: "ready", "proved", "verified"
    p_in,       \* arguments of ECDSAProof::prove
    p_pi2,      \* the proof ECDSAProof::prove returned
    p_vin,      \* arguments of ECDSAProof::verify
    p_res,      \* return value of ECDSAProof::verify
    h_tasks,    \* client helper: the map of SharedState, cred_uid -> Option<ShowData>
    h_folders,  \* cred_uids whose credential folder exists
    h_task,     \* position of the background task of each cred_uid
    h_del,      \* position of the /delete request of each cred_uid
    h_lock,     \* holder of the SharedState mutex: a /show request, or 0
    h_req,      \* the /show requests: position, arguments, local ClientState
    h_ctr,      \* position of the rng
    h_resp,     \* the last response sent
    v_sessions, \* sample verifier: active_session_ids
    v_results,  \* validation_results, session_id -> ValidationResult
    v_accepted, \* for each session_id of validation_results, the request accepted for it
    v_cs,       \* the ClientState of the holder
    v_proof,    \* the last ShowProof of the holder, and the challenge it was made for
    v_ctr,      \* position of the rng
    v_resp      \* the last response sent

dl_vars == <<dl_pc, dl_in, dl_proof, dl_vin, dl_res>>

g_vars == <<g_pc, g_cs, g_ctr, g_io, g_show, g_vin, g_res>>

r_vars == <<r_pc, r_n, r_open, r_proof, r_com, r_res>>

s_vars == <<s_pc, s_cs, s_ctr, s_in, s_proof, s_vin, s_ret>>

a_vars == <<a_pc, a_today, a_age, a_birth, a_days, a_show, a_vin, a_ret>>

p_vars == <<p_pc, p_in, p_pi2, p_vin, p_res>>

h_vars == <<h_tasks, h_folders, h_task, h_del, h_lock, h_req, h_ctr, h_resp>>

v_vars == <<v_sessions, v_results, v_accepted, v_cs, v_proof, v_ctr, v_resp>>

\* the variables a scenario leaves alone
dl_others == <<g_vars, r_vars, s_vars, a_vars, p_vars, h_vars, v_vars>>

g_others == <<dl_vars, r_vars, s_vars, a_vars, p_vars, h_vars, v_vars>>

r_others == <<dl_vars, g_vars, s_vars, a_vars, p_vars, h_vars, v_vars>>

s_others == <<dl_vars, g_vars, r_vars, a_vars, p_vars, h_vars, v_vars>>

a_others == <<dl_vars, g_vars, r_vars, s_vars, p_vars, h_vars, v_vars>>

p_others == <<dl_vars, g_vars, r_vars, s_vars, a_vars, h_vars, v_vars>>

h_others == <<dl_vars, g_vars, r_vars, s_vars, a_vars, p_vars, v_vars>>

v_others == <<dl_vars, g_vars, r_vars, s_vars, a_vars, p_vars, h_vars>>

vars == <<seed, ro, dl_vars, g_vars, r_vars, s_vars, a_vars, p_vars, h_vars, v_vars>>

\* ------------------------------------------------------------------------
\* Bounds of the model
\* ------------------------------------------------------------------------
\* scalars of DLogPoK statements range over 1..MaxScalar
MaxScalar == 2
\* an eq_pos list holds at most MaxEqPairs pairs
MaxEqPairs == 2
\* number of rng seeds / hash-family members explored
NumSeeds == 1
\* number of public inputs of the circuit in the Groth16 show scenario
NumInputs == 3
\* range proofs are made for n = 2^k bits, k in 1..MaxLogBits
MaxLogBits == 2

\* ------------------------------------------------------------------------
\* Scalar field F_P and the group G1 (written by discrete logarithm)
\* ------------------------------------------------------------------------
P == 3 * 2^12 + 1

Fp == 0..(P - 1)

FAdd(a, b) == (a + b) % P

FSub(a, b) == (a - b) % P

FNeg(a) == (P - a) % P

FMul(a, b) == (a * b) % P

RECURSIVE FPow(_, _)
FPow(a, e) ==
    IF e = 0 THEN 1
    ELSE IF a = 0 THEN 0
    ELSE IF e % 2 = 1 THEN (a * FPow((a * a) % P, e \div 2)) % P
    ELSE FPow((a * a) % P, e \div 2)

\* the vector with the elements f[1], ..., f[Len(f)] (Vec::collect)
Vec(f) == SubSeq(f, 1, Len(f))

\* let x = value; the rest of the function: the value is computed once and
\* named by the parameter of F
Bind(value_, F(_)) == F(value_)

\* primitive root of F_P used to enumerate generic field elements
PrimRoot == 11

\* the powers PrimRoot^1 .. PrimRoot^(P-1), tabulated
Powers == Vec([e \in 1..(P - 1) |-> FPow(PrimRoot, e)])

\* PrimRoot^e
Gen(e) == IF e % (P - 1) = 0 THEN 1 ELSE Powers[e % (P - 1)]

\* k-th output of thread_rng() under a seed: pairwise distinct, non-zero
Rand(sd, k) == Gen(2 * (k + 29 * sd) + 2)

\* answer of the transcript hash to the i-th distinct transcript: an element of
\* full multiplicative order (never 0, never a root of unity of a small domain)
ChallengeOf(sd, i) == Gen(2 * (i + 13 * sd) + 1)

\* Field::inverse: a^(P-2), tabulated for the non-zero elements
Inverses == Vec([a \in 1..(P - 1) |-> FPow(a, P - 2)])

FInv(a) == IF a = 0 THEN 0 ELSE Inverses[a]

FDiv(a, b) == FMul(a, FInv(b))

RECURSIVE SeqSum(_)
SeqSum(s) == IF s = <<>> THEN 0 ELSE (Head(s) + SeqSum(Tail(s))) % P

\* utils.rs msm_select / direct_msm: sum_j bases[j] * scalars[j]
msm_select(bases, scalars) ==
    SeqSum([j \in 1..Len(bases) |-> FMul(bases[j], scalars[j])])

\* position of transcript t in the oracle table (Len + 1 when new)
RoIndex(ro_, t) ==
    IF \E i \in 1..Len(ro_) : ro_[i] = t
    THEN CHOOSE i \in 1..Len(ro_) : ro_[i] = t
    ELSE Len(ro_) + 1

RoQuery(ro_, t) == IF RoIndex(ro_, t) > Len(ro_) THEN Append(ro_, t) ELSE ro_

\* ts.challenge_bytes + from_random_bytes: the challenge for transcript t
challenge_bytes(hs, ro_, t) == ChallengeOf(hs, RoIndex(ro_, t))

\* ------------------------------------------------------------------------
\* dlog.rs : DLogPoK
\* ------------------------------------------------------------------------
\* Option<&[u8]>
NoneCtx == [some |-> FALSE, bytes |-> <<>>]

SomeCtx(b) == [some |-> TRUE, bytes |-> b]

\* context.unwrap_or(b"")
CtxBytes(context) == IF context.some THEN context.bytes ELSE <<>>

\* the messages appended to the Merlin transcript by prove / verify:
\* "context string", then per statement num_bases, each base, k_i and y_i
MutTranscriptNoContext(context, bases, k, y) ==
    <<"dlog", <<>>,
      Vec([i \in 1..Len(y) |-> [num_bases |-> Len(bases[i]), base |-> bases[i],
                            k |-> k[i], y |-> y[i]]])>>

MutTranscriptNoBases(context, bases, k, y) ==
    <<"dlog", CtxBytes(context),
      Vec([i \in 1..Len(y) |-> [num_bases |-> Len(bases[i]), base |-> <<>>,
                            k |-> k[i], y |-> y[i]]])>>

DLogTranscript(context, bases, k, y) ==
    <<"dlog", CtxBytes(context),
      Vec([i \in 1..Len(y) |-> [num_bases |-> Len(bases[i]), base |-> bases[i],
                            k |-> k[i], y |-> y[i]]])>>

\* prove, lines 69-75: for (i,j) in eq_pos { r[1][j] = r[0][i] }, in list order
RECURSIVE ApplyEqPos(_, _)
ApplyEqPos(r, eq) ==
    IF eq = <<>> THEN r
    ELSE LET i == Head(eq)[1]
             j == Head(eq)[2]
         IN ApplyEqPos([r EXCEPT ![2][j + 1] = r[1][i + 1]], Tail(eq))

\* the blindings r[i][j] drawn from the rng: statement by statement
FreshBlindings(sd, ctr, bases) ==
    Vec([i \in 1..Len(bases) |->
        Vec([j \in 1..Len(bases[i]) |->
            Rand(sd, ctr + j - 1
                       + SeqSum([l \in 1..(i - 1) |-> Len(bases[l])]))])])

NumBlindings(bases) == SeqSum([l \in 1..Len(bases) |-> Len(bases[l])])

\* prove panics: assert_eq!(y.len(), bases.len()), assert_eq!(bases.len(),
\* scalars.len()), assert!(y.len() == 2) with eq_pos, index out of bounds
ProveAborts(y, bases, scalars, eq_pos) ==
    \/ Len(y) # Len(bases)
    \/ Len(bases) # Len(scalars)
    \/ \E i \in 1..Len(y) : Len(scalars[i]) < Len(bases[i])
    \/ /\ eq_pos.some
       /\ \/ Len(y) # 2
          \/ \E n \in 1..Len(eq_pos.pairs) :
                \/ eq_pos.pairs[n][1] + 1 > Len(bases[1])
                \/ eq_pos.pairs[n][2] + 1 > Len(bases[2])

MutResponsesPlus(r, c, scalars) ==
    Vec([i \in 1..Len(r) |->
        Vec([j \in 1..Len(r[i]) |-> FAdd(r[i][j], FMul(c, scalars[i][j]))])])

\* prove, lines 101-109: s[i][j] = r[i][j] - c * scalars[i][j]
Responses(r, c, scalars) ==
    Vec([i \in 1..Len(r) |->
        Vec([j \in 1..Len(r[i]) |-> FSub(r[i][j], FMul(c, scalars[i][j]))])])

\* DLogPoK::prove; r0 are the blindings as first drawn.  Returns the proof and
\* the oracle table after the challenge was derived.
DLogProve(hs, ro_, context, y, bases, scalars, eq_pos, r0) ==
    LET r  == IF eq_pos.some THEN ApplyEqPos(r0, eq_pos.pairs) ELSE r0
        k  == Vec([i \in 1..Len(y) |-> msm_select(bases[i], r[i])])
        t  == DLogTranscript(context, bases, k, y)
        c  == challenge_bytes(hs, ro_, t)
    IN [proof |-> [c |-> c, s |-> Responses(r, c, scalars)],
        ro    |-> RoQuery(ro_, t)]

\* verify panics: assert_eq!(bases[i].len(), self.s[i].len()), indexing,
\* assert!(y.len() == 2) with eq_pos
VerifyAborts(proof, bases, y, eq_pos) ==
    \/ Len(bases) < Len(y)
    \/ Len(proof.s) < Len(y)
    \/ \E i \in 1..Len(y) :
          i <= Len(bases) /\ i <= Len(proof.s) /\ Len(bases[i]) # Len(proof.s[i])
    \/ /\ eq_pos.some
       /\ \/ Len(y) # 2
          \/ \E n \in 1..Len(eq_pos.pairs) :
                \/ eq_pos.pairs[n][1] + 1 > Len(proof.s[1])
                \/ eq_pos.pairs[n][2] + 1 > Len(proof.s[2])

\* verify, lines 134-146: recomputed_k[i] = sum_j bases[i][j]*s[i][j] + y[i]*c
RecomputedK(proof, bases, y) ==
    Vec([i \in 1..Len(y) |->
        msm_select(Append(bases[i], y[i]), Append(proof.s[i], proof.c))])

MutEqPosIgnored(proof, eq_pos) == TRUE

\* verify, lines 155-164: every listed pair has equal responses
EqPosHolds(proof, eq_pos) ==
    eq_pos.some =>
        \A n \in 1..Len(eq_pos.pairs) :
            proof.s[1][eq_pos.pairs[n][1] + 1] = proof.s[2][eq_pos.pairs[n][2] + 1]

\* DLogPoK::verify (for calls that do not panic)
DLogVerify(hs, ro_, proof, context, bases, y, eq_pos) ==
    LET t == DLogTranscript(context, bases, RecomputedK(proof, bases, y), y)
    IN [ok |-> EqPosHolds(proof, eq_pos) /\ challenge_bytes(hs, ro_, t) = proof.c,
        ro |-> IF EqPosHolds(proof, eq_pos) THEN RoQuery(ro_, t) ELSE ro_]


\* DLogPoK::pedersen_commit with the randomness r drawn by the caller's rng:
\* the opening of c = bases[0]*m + bases[1]*r
PedersenOpen(bases, m, r) ==
    [bases |-> bases, c |-> msm_select(bases, <<m, r>>), r |-> r, m |-> m]

\* ------------------------------------------------------------------------
\* Groth16 over the pairing e(a, b) = a * b (ark_groth16, forked: the
\* verifying key also carries delta_g1)
\* ------------------------------------------------------------------------
Pairing(a, b) == FMul(a, b)

\* E::G1::generator()
G1Generator == 1

\* L_j = vk.gamma_abc_g1[j], j = 0 .. number of public inputs
BasisL(j) == Gen(3 * j + 50)

\* VerifyingKey for n public inputs.  alpha is in G1, beta, gamma, delta in
\* G2.  delta_g1 is the G1 element with e(delta_g1, gamma_g2) = e(G, delta_g2).
VerifyingKey(n) ==
    LET gamma == Gen(301)
        delta == Gen(407)
    IN [alpha_g1 |-> Gen(111), beta_g2 |-> Gen(205),
        gamma_g2 |-> gamma, delta_g2 |-> delta,
        gamma_abc_g1 |-> Vec([j \in 1..(n + 1) |-> BasisL(j - 1)]),
        delta_g1 |-> FDiv(delta, gamma)]

\* pvk.vk.gamma_abc_g1[j] with the 0-based index j of the program
GammaAbc(vk, j) == vk.gamma_abc_g1[j + 1]

\* Groth16 prepare_inputs: L_0 + sum_i L_{i+1} * x_i
PreparedInputs(vk, x) ==
    FAdd(GammaAbc(vk, 0),
         SeqSum([i \in 1..Len(x) |-> FMul(GammaAbc(vk, i), x[i])]))

\* Groth16::verify_proof_with_prepared_inputs:
\* e(A, B) = e(alpha, beta) * e(prepared, gamma) * e(C, delta)
verify_proof_with_prepared_inputs(vk, proof, prepared) ==
    Pairing(proof.a, proof.b)
        = FAdd(FAdd(Pairing(vk.alpha_g1, vk.beta_g2), Pairing(prepared, vk.gamma_g2)),
               Pairing(proof.c, vk.delta_g2))

\* a proof (A, B, C) that verifies for the inputs x, made from randomness a, b
Groth16Prove(vk, x, a, b) ==
    [a |-> a, b |-> b,
     c |-> FDiv(FSub(FSub(Pairing(a, b), Pairing(vk.alpha_g1, vk.beta_g2)),
                     Pairing(PreparedInputs(vk, x), vk.gamma_g2)),
                vk.delta_g2)]

\* Groth16::rerandomize_proof: A' = A/r1, B' = r1*B + r1*r2*delta, C' = C + r2*A
rerandomize_proof(vk, proof, r1, r2) ==
    [a |-> FDiv(proof.a, r1),
     b |-> FAdd(FMul(r1, proof.b), FMul(FMul(r1, r2), vk.delta_g2)),
     c |-> FAdd(proof.c, FMul(r2, proof.a))]

\* ------------------------------------------------------------------------
\* groth16rand.rs : ClientState::show_groth16, ShowGroth16::verify
\* ------------------------------------------------------------------------
\* structs.rs PublicIOType
Revealed == "Revealed"

Hidden == "Hidden"

Committed == "Committed"

PublicIOType == {Revealed, Hidden, Committed}

\* the positions (1-based) of io_types of type ty, in ascending order
RECURSIVE PositionsFrom(_, _, _)
PositionsFrom(io_types, ty, i) ==
    IF i > Len(io_types) THEN <<>>
    ELSE IF io_types[i] = ty
         THEN <<i>> \o PositionsFrom(io_types, ty, i + 1)
         ELSE PositionsFrom(io_types, ty, i + 1)

Positions(io_types, ty) == PositionsFrom(io_types, ty, 1)

\* ClientState::new
NewClientState(inputs, proof, vk) ==
    [inputs |-> inputs, proof |-> proof, vk |-> vk,
     input_com_randomness |-> [some |-> FALSE, z |-> 0],
     committed_input_openings |-> <<>>]

MutAdjustWithoutZ(c, acc_r, z) == FAdd(c, FMul(G1Generator, FNeg(acc_r)))

\* show_groth16, lines 167-168:
\* rand_proof.c = rand_proof.c + generator * (-(acc_r + z))
AdjustProofC(c, acc_r, z) == FAdd(c, FMul(G1Generator, FNeg(FAdd(acc_r, z))))

\* ClientState::show_groth16.  The rng is read from position ctr on: r1, r2 of
\* the rerandomization, one r per Committed input, z, then the blindings of the
\* DLogPoK.  Returns the ShowGroth16, the openings stored in the ClientState,
\* the oracle table and the rng position afterwards.
show_groth16(hs, ro_, sd, ctr, cs, context, io_types) ==
    LET vk   == cs.vk
        r(k) == Rand(sd, ctr + 1 + k)
    IN
    Bind(rerandomize_proof(vk, cs.proof, Rand(sd, ctr), Rand(sd, ctr + 1)), LAMBDA rp :
    Bind(Positions(io_types, Committed), LAMBDA ci :
    Bind(Positions(io_types, Hidden), LAMBDA hi :
    Bind(Vec([k \in 1..Len(ci) |->
             [bases |-> <<GammaAbc(vk, ci[k]), vk.delta_g1>>,
              c |-> msm_select(<<vk.delta_g1, GammaAbc(vk, ci[k])>>,
                               <<r(k), cs.inputs[ci[k]]>>),
              r |-> r(k),
              m |-> cs.inputs[ci[k]]]]), LAMBDA openings :
    Bind(Rand(sd, ctr + 2 + Len(ci)), LAMBDA z :
    Bind(Vec([k \in 1..Len(hi) |-> GammaAbc(vk, hi[k])]) \o <<vk.delta_g1>>,
         LAMBDA hidden_input_bases :
    Bind(Vec([k \in 1..Len(hi) |-> cs.inputs[hi[k]]]) \o <<z>>,
         LAMBDA hidden_input_scalars :
    Bind(msm_select(hidden_input_bases, hidden_input_scalars),
         LAMBDA com_hidden_inputs :
    Bind(Vec([k \in 1..Len(ci) |-> openings[k].bases]) \o <<hidden_input_bases>>,
         LAMBDA bases :
    LET acc_r   == SeqSum([k \in 1..Len(ci) |-> r(k)])
        y       == Vec([k \in 1..Len(ci) |-> openings[k].c]) \o <<com_hidden_inputs>>
        scalars == Vec([k \in 1..Len(ci) |-> <<openings[k].m, openings[k].r>>])
                       \o <<hidden_input_scalars>>
    IN
    Bind(DLogProve(hs, ro_, context, y, bases, scalars,
                   [some |-> FALSE, pairs |-> <<>>],
                   FreshBlindings(sd, ctr + 3 + Len(ci), bases)), LAMBDA pok :
       [show |-> [rand_proof |-> [rp EXCEPT !.c = AdjustProofC(rp.c, acc_r, z)],
                  com_hidden_inputs |-> com_hidden_inputs,
                  pok_inputs |-> pok.proof,
                  commited_inputs |-> Vec([k \in 1..Len(ci) |-> openings[k].c])],
        openings |-> openings,
        z   |-> z,
        ro  |-> pok.ro,
        ctr |-> ctr + 3 + Len(ci) + NumBlindings(bases)]))))))))))

\* the bases of the DLogPoK statements as ShowGroth16::verify rebuilds them
VerifierBases(vk, io_types) ==
    LET ci == Positions(io_types, Committed)
        hi == Positions(io_types, Hidden)
    IN Vec([k \in 1..Len(ci) |-> <<GammaAbc(vk, ci[k]), vk.delta_g1>>])
         \o <<Vec([k \in 1..Len(hi) |-> GammaAbc(vk, hi[k])]) \o <<vk.delta_g1>>>>

\* verify without the commitments of the Committed inputs
MutComInputsWithoutCommitted(show, vk, io_types, public_inputs) ==
    LET ri == Positions(io_types, Revealed)
    IN FAdd(FAdd(show.com_hidden_inputs, GammaAbc(vk, 0)),
            msm_select(Vec([k \in 1..Len(ri) |-> GammaAbc(vk, ri[k])]),
                       Vec([k \in 1..Len(ri) |-> public_inputs[k]])))

\* verify, lines 238-271: com_inputs = com_hidden + L_0 + sum of the commited
\* inputs + sum over the Revealed positions of L_{i+1} * public_inputs[next]
ComInputs(show, vk, io_types, public_inputs) ==
    LET ci == Positions(io_types, Committed)
        ri == Positions(io_types, Revealed)
    IN FAdd(FAdd(FAdd(show.com_hidden_inputs, GammaAbc(vk, 0)),
                 SeqSum([k \in 1..Len(ci) |-> show.commited_inputs[k]])),
            msm_select(Vec([k \in 1..Len(ri) |-> GammaAbc(vk, ri[k])]),
                       Vec([k \in 1..Len(ri) |-> public_inputs[k]])))

\* ShowGroth16::verify panics: gamma_abc_g1, public_inputs or commited_inputs
\* indexed past their end, or a panic of DLogPoK::verify
ShowVerifyAborts(show, vk, io_types, public_inputs) ==
    \/ Len(io_types) + 1 > Len(vk.gamma_abc_g1)
    \/ Len(Positions(io_types, Revealed)) > Len(public_inputs)
    \/ Len(Positions(io_types, Committed)) > Len(show.commited_inputs)
    \/ VerifyAborts(show.pok_inputs, VerifierBases(vk, io_types),
                    show.commited_inputs \o <<show.com_hidden_inputs>>,
                    [some |-> FALSE, pairs |-> <<>>])

\* ShowGroth16::verify (for calls that do not panic)
ShowGroth16Verify(hs, ro_, show, vk, context, io_types, public_inputs) ==
    Bind(ComInputs(show, vk, io_types, public_inputs), LAMBDA com_inputs :
    Bind(verify_proof_with_prepared_inputs(vk, show.rand_proof, com_inputs),
         LAMBDA groth16_valid :
    Bind(DLogVerify(hs, ro_, show.pok_inputs, context,
                    VerifierBases(vk, io_types),
                    show.commited_inputs \o <<show.com_hidden_inputs>>,
                    [some |-> FALSE, pairs |-> <<>>]), LAMBDA dl :
       [groth16_valid |-> groth16_valid,
        dlog_pok_valid |-> dl.ok,
        ok |-> groth16_valid /\ dl.ok,
        com_inputs |-> com_inputs,
        ro |-> dl.ro])))

\* ------------------------------------------------------------------------
\* Polynomials over F_P (ark_poly DensePolynomial): the sequence of the
\* coefficients, constant term first
\* ------------------------------------------------------------------------
PolyCoeff(p, i) == IF i <= Len(p) THEN p[i] ELSE 0

PolyLen(p, q) == IF Len(p) >= Len(q) THEN Len(p) ELSE Len(q)

PolyAdd(p, q) == Vec([i \in 1..PolyLen(p, q) |-> FAdd(PolyCoeff(p, i), PolyCoeff(q, i))])

PolySub(p, q) == Vec([i \in 1..PolyLen(p, q) |-> FSub(PolyCoeff(p, i), PolyCoeff(q, i))])

PolyScale(p, k) == Vec([i \in 1..Len(p) |-> FMul(p[i], k)])

PolyMul(p, q) ==
    IF p = <<>> \/ q = <<>> THEN <<>>
    ELSE Vec([k \in 1..(Len(p) + Len(q) - 1) |->
            SeqSum([i \in 1..Len(p) |->
                IF (k - i + 1) \in 1..Len(q) THEN FMul(p[i], q[k - i + 1]) ELSE 0])])

\* Polynomial::evaluate
PolyEval(p, x) == SeqSum([i \in 1..Len(p) |-> FMul(p[i], FPow(x, i - 1))])

\* the quotient of p by (X - a); the remainder p(a) is dropped, as by the
\* division operator of DensePolynomial
PolyDivLinear(p, a) ==
    Vec([i \in 1..(Len(p) - 1) |->
        SeqSum([j \in 1..(Len(p) - i) |-> FMul(p[i + j], FPow(a, j - 1))])])

\* divide_by_vanishing_poly: quotient and remainder of p by X^n - 1
DivideByVanishing(p, n) ==
    [q |-> Vec([i \in 1..(IF Len(p) > n THEN Len(p) - n ELSE 0) |->
              SeqSum([k \in 1..((Len(p) - i) \div n) |-> p[i + k * n]])]),
     r |-> Vec([i \in 1..(IF Len(p) > n THEN n ELSE Len(p)) |->
              SeqSum([k \in 1..((Len(p) - i) \div n + 1) |-> p[i + (k - 1) * n]])])]

\* mul_by_vanishing_poly: p * (X^n - 1)
MulByVanishing(p, n) ==
    PolySub(Vec([i \in 1..(Len(p) + n) |-> IF i <= n THEN 0 ELSE p[i - n]]), p)

\* Radix2EvaluationDomain::new(n): the n-th roots of unity, element(i) = w^i
DomainElement(n, i) == FPow(Gen((P - 1) \div n), i)

\* domain.ifft: the coefficients of the polynomial of degree < n with the
\* given evaluations on the domain
Ifft(evals, n) ==
    Vec([j \in 1..n |->
        FMul(FInv(n % P),
             SeqSum([i \in 1..n |->
                 FMul(evals[i], FInv(DomainElement(n, (i - 1) * (j - 1))))]))])

\* ------------------------------------------------------------------------
\* KZG10 (ark_poly_commit), G1 and G2 by discrete logarithms
\* ------------------------------------------------------------------------
\* KZG10::setup: generators g, gamma_g of G1, h of G2 and the trapdoor beta
KzgSetup(sd) ==
    [g |-> Rand(sd, 1000), gamma_g |-> Rand(sd, 1001),
     beta |-> Rand(sd, 1002), h |-> Rand(sd, 1003)]

\* KZG10::commit: sum_i coeff_i * powers_of_g[i] + sum_i rand_i * powers_of_gamma_g[i]
KzgCommit(pp, poly, rand) ==
    FAdd(FMul(pp.g, PolyEval(poly, pp.beta)),
         FMul(pp.gamma_g, PolyEval(rand, pp.beta)))

\* KZG10::open: commitment to the witness polynomials, and rand(point)
KzgOpen(pp, poly, point, rand) ==
    [w |-> KzgCommit(pp, PolyDivLinear(poly, point), PolyDivLinear(rand, point)),
     random_v |-> PolyEval(rand, point)]

\* KZG10::check: e(com - g*value - gamma_g*random_v, h) = e(w, beta*h - point*h)
KzgCheck(pp, com, point, value, proof) ==
    Pairing(FSub(FSub(com, FMul(pp.g, value)), FMul(pp.gamma_g, proof.random_v)),
            pp.h)
        = Pairing(proof.w, FMul(FSub(pp.beta, point), pp.h))

\* KZG10::batch_check: the random linear combination of the checks holds
\* exactly when every one of them does
KzgBatchCheck(pp, coms, points, values, proofs) ==
    \A i \in 1..Len(coms) : KzgCheck(pp, coms[i], points[i], values[i], proofs[i])

\* ------------------------------------------------------------------------
\* rangeproof.rs : RangeProof::prove_n_bits, RangeProof::verify_n_bits
\* ------------------------------------------------------------------------
\* RangeProofPK::setup: com_f_basis = [gamma_g, beta*gamma_g, beta^2*gamma_g, g]
ComFBasis(pp) ==
    <<pp.gamma_g, FMul(pp.gamma_g, pp.beta),
      FMul(pp.gamma_g, FMul(pp.beta, pp.beta)), pp.g>>

\* bit i (0-based, little endian) of elem.into_bigint()
Bit(elem, i) == (elem \div (2^i)) % 2

MutEvalWWithoutW1(proof, c, rho, n) ==
    LET wlast == DomainElement(n, n - 1)
        rn1 == FSub(FPow(rho, n), 1)
        eval_w2 == FDiv(FMul(FMul(proof.eval_g, FSub(1, proof.eval_g)), rn1),
                        FSub(rho, wlast))
        g2gw == FSub(proof.eval_g, FMul(2, proof.eval_gw))
        eval_w3 == FMul(FMul(g2gw, FSub(1, g2gw)), FSub(rho, wlast))
    IN FSub(FAdd(FMul(c, eval_w2), FMul(FMul(c, c), eval_w3)), proof.eval_w_hat)

\* g_evals[i] = 2 * g_evals[i + 1] + elem_bits[i], from the first n bits only
RECURSIVE GEvals(_, _, _)
GEvals(elem, n, i) ==
    IF i = n - 1 THEN Bit(elem, n - 1)
    ELSE FAdd(FMul(2, GEvals(elem, n, i + 1)), Bit(elem, i))

\* gw_blinded: coefficient i of g_blinded times domain_elements[i mod n]
GwBlinded(g_blinded, n) ==
    Vec([i \in 1..Len(g_blinded) |->
        FMul(g_blinded[i], DomainElement(n, (i - 1) % n))])

\* the add_to_transcript calls before each of the two challenges
RangeTranscript(coms) == <<"range", coms>>

\* the pair (f_coeff, q_coeff) = ((rho^n - 1)/(rho - 1), rho^n - 1)
RhoCoeffs(rho, n) ==
    LET q_coeff == FSub(FPow(rho, n), 1)
    IN [q_coeff |-> q_coeff, f_coeff |-> FDiv(q_coeff, FSub(rho, 1))]

\* prove_n_bits.  The rng is read from position ctr on: 3 coefficients of the
\* blinding polynomial of g, 3 of rand_f, the 6 blindings of the DLEQ proof,
\* 4 coefficients of rand_g, 3 of rand_q.
prove_n_bits(hs, ro_, sd, ctr, ped_open, n, pp) ==
    LET elem == ped_open.m
        f == <<elem>>
        one == <<1>>
        wlast == DomainElement(n, n - 1)
        rand_f == Vec([i \in 1..3 |-> Rand(sd, ctr + 3 + i - 1)])
        rand_g == Vec([i \in 1..4 |-> Rand(sd, ctr + 12 + i - 1)])
        rand_q == Vec([i \in 1..3 |-> Rand(sd, ctr + 16 + i - 1)])
        dleq_bases == <<ped_open.bases, ComFBasis(pp)>>
        g == Ifft(Vec([i \in 1..n |-> GEvals(elem, n, i - 1)]), n)
        blinding_poly ==
            MulByVanishing(Vec([i \in 1..3 |-> Rand(sd, ctr + i - 1)]), n)
    IN
    Bind(PolyAdd(g, blinding_poly), LAMBDA g_blinded :
    Bind(PolySub(g_blinded, PolyScale(GwBlinded(g_blinded, n), 2)), LAMBDA g_2gw :
    Bind(KzgCommit(pp, f, rand_f), LAMBDA com_f :
    Bind(DLogProve(hs, ro_, [some |-> FALSE, bytes |-> <<>>],
                   <<ped_open.c, com_f>>, dleq_bases,
                   <<<<ped_open.m, ped_open.r>>, rand_f \o <<elem>>>>,
                   [some |-> TRUE, pairs |-> <<<<0, 3>>>>],
                   FreshBlindings(sd, ctr + 6, dleq_bases)), LAMBDA dleq :
    Bind(KzgCommit(pp, g_blinded, rand_g), LAMBDA com_g :
    Bind(RangeTranscript(<<com_f, com_g>>), LAMBDA t1 :
    Bind(challenge_bytes(hs, dleq.ro, t1), LAMBDA c :
    Bind(RoQuery(dleq.ro, t1), LAMBDA ro1 :
    LET q1 == PolyDivLinear(PolySub(g_blinded, f), 1)
        q2 == PolyDivLinear(PolyMul(g_blinded, PolySub(one, g_blinded)), wlast)
        w3 == PolyMul(PolyMul(g_2gw, PolySub(one, g_2gw)), <<FNeg(wlast), 1>>)
        q3 == DivideByVanishing(w3, n).q
    IN
    Bind(PolyAdd(PolyAdd(q1, PolyScale(q2, c)), PolyScale(q3, FMul(c, c))), LAMBDA q :
    Bind(KzgCommit(pp, q, rand_q), LAMBDA com_q :
    Bind(RangeTranscript(<<com_f, com_g, com_q>>), LAMBDA t2 :
    Bind(challenge_bytes(hs, ro1, t2), LAMBDA rho :
    Bind(RhoCoeffs(rho, n), LAMBDA k :
    LET rw == FMul(rho, DomainElement(n, 1))
        rand_w_hat == PolyAdd(PolyScale(rand_f, k.f_coeff), PolyScale(rand_q, k.q_coeff))
    IN
    Bind(PolyAdd(PolyScale(f, k.f_coeff), PolyScale(q, k.q_coeff)), LAMBDA w_hat :
       [proof |->
          [com_f |-> com_f, com_g |-> com_g, com_q |-> com_q,
           eval_g |-> PolyEval(g_blinded, rho),
           proof_g |-> KzgOpen(pp, g_blinded, rho, rand_g),
           eval_gw |-> PolyEval(g_blinded, rw),
           proof_gw |-> KzgOpen(pp, g_blinded, rw, rand_g),
           eval_w_hat |-> PolyEval(w_hat, rho),
           proof_w_hat |-> KzgOpen(pp, w_hat, rho, rand_w_hat),
           dleq_proof |-> dleq.proof],
        ro |-> RoQuery(ro1, t2),
        ctr |-> ctr + 19]))))))))))))))

\* verify_n_bits, lines 393-407: eval_w = w1 + c*w2 + c^2*w3 - eval_w_hat
EvalW(proof, c, rho, n) ==
    LET wlast == DomainElement(n, n - 1)
        rn1 == FSub(FPow(rho, n), 1)
        partial_eval_w1 == FDiv(FMul(proof.eval_g, rn1), FSub(rho, 1))
        eval_w2 == FDiv(FMul(FMul(proof.eval_g, FSub(1, proof.eval_g)), rn1),
                        FSub(rho, wlast))
        g2gw == FSub(proof.eval_g, FMul(2, proof.eval_gw))
        eval_w3 == FMul(FMul(g2gw, FSub(1, g2gw)), FSub(rho, wlast))
    IN FSub(FAdd(FAdd(partial_eval_w1, FMul(c, eval_w2)),
                 FMul(FMul(c, c), eval_w3)),
            proof.eval_w_hat)

\* verify_n_bits: the three checks in program order; a failed check returns
\* false before the next one runs
verify_n_bits(hs, ro_, proof, ped_com, bases, n, pp) ==
    Bind(RangeTranscript(<<proof.com_f, proof.com_g>>), LAMBDA t1 :
    Bind(challenge_bytes(hs, ro_, t1), LAMBDA c :
    Bind(RoQuery(ro_, t1), LAMBDA ro1 :
    Bind(RangeTranscript(<<proof.com_f, proof.com_g, proof.com_q>>), LAMBDA t2 :
    Bind(challenge_bytes(hs, ro1, t2), LAMBDA rho :
    Bind(RoQuery(ro1, t2), LAMBDA ro2 :
    Bind(RhoCoeffs(rho, n), LAMBDA k :
    LET com_w_hat == FAdd(FMul(proof.com_f, k.f_coeff), FMul(proof.com_q, k.q_coeff))
    IN
    Bind(KzgBatchCheck(pp, <<proof.com_g, proof.com_g, com_w_hat>>,
                       <<rho, FMul(rho, DomainElement(n, 1)), rho>>,
                       <<proof.eval_g, proof.eval_gw, proof.eval_w_hat>>,
                       <<proof.proof_g, proof.proof_gw, proof.proof_w_hat>>),
         LAMBDA batch :
    Bind(EvalW(proof, c, rho, n) = 0, LAMBDA identity :
    Bind(DLogVerify(hs, ro2, proof.dleq_proof,
                    [some |-> FALSE, bytes |-> <<>>],
                    <<bases, ComFBasis(pp)>>, <<ped_com, proof.com_f>>,
                    [some |-> TRUE, pairs |-> <<<<0, 3>>>>]), LAMBDA dleq :
       [batch |-> batch,
        identity |-> identity,
        ok |-> batch /\ identity /\ dleq.ok,
        ro |-> IF batch /\ identity THEN dleq.ro ELSE ro2]))))))))))

\* ------------------------------------------------------------------------
\* device.rs : DeviceProof::prove, DeviceProof::verify
\* ecdsa-pop : ECDSAProof::prove, ECDSAProof::verify
\* ------------------------------------------------------------------------
CONTEXT_PI0 == [some |-> TRUE, bytes |-> <<"creating sigma proof pi0 for linking proof">>]

CONTEXT_PI1 == [some |-> TRUE, bytes |-> <<"creating sigma proof pi1 for linking proof">>]

\* TestDevice::sign: the bytes of an ECDSA signature (r, s) on digest by the
\* key whose x-coordinate has the halves key = <<q0, q1>>; nonce names R
DeviceSign(key, digest, nonce) == [key |-> key, digest |-> digest, R |-> nonce]

\* ECDSASig::new_from_bytes(digest, sig_bytes)
ECDSASig(digest, sig_bytes) == [r_s |-> sig_bytes, digest |-> digest]

\* compute_RTU, line 201: the signature (r, s) verifies on sig.digest under
\* the public key
SignatureVerifies(sig, key) == sig.r_s.key = key /\ sig.r_s.digest = sig.digest

\* ECDSAProofCircuit::compute_hQ: Poseidon(q0, q1, z)
compute_hQ(q0, q1, z) == <<"hQ", q0, q1, z>>

\* compute_RTU / compute_TU: T and U are functions of R and the digest
compute_TU(R, digest) == <<"TU", R, digest>>

\* the two halves e1, e2 of Sha256(CONTEXT_E, pi0.c, com0, com1, comz, h_Q)
DeviceChallengeTranscript(half, pi0_c, com0, com1, comz, h_Q) ==
    <<"computing challenge for linking proof", half, pi0_c, com0, com1, comz, h_Q>>

\* ECDSAProof::prove: a Spartan NIZK for the instance (T, U, hQ) of the
\* circuit; m, e1 and e2 are allocated as witness values of the circuit.
\* sat: the witness (s, q0, q1, z) with them satisfies the constraints.
ECDSAProve(key, sig, h_Q, m, e1, e2, z) ==
    [instance |-> <<compute_TU(sig.r_s.R, sig.digest), h_Q>>,
     sat |-> /\ h_Q = compute_hQ(key[1], key[2], z)
             /\ m = FAdd(FAdd(key[1], FMul(key[2], e1)), FMul(z, e2))]

\* ECDSAProof::verify: the NIZK verifies for the inputs T.x, T.y, U.x, U.y, hQ
ECDSAVerify(R, digest, h_Q, m, e1, e2, pi2) ==
    pi2.sat /\ pi2.instance = <<compute_TU(R, digest), h_Q>>

\* DeviceProof::prove without the assertion of compute_RTU
MutProveAbortsWithoutSignature(com0, com1, sig, key) ==
    com0.c # msm_select(com0.bases, <<com0.m, com0.r>>)

\* DeviceProof::prove panics: the signature does not verify (compute_RTU), or
\* the assertion lhs1 == h * r fails
DeviceProveAborts(com0, com1, sig, key) ==
    \/ ~SignatureVerifies(sig, key)
    \/ com0.c # msm_select(com0.bases, <<com0.m, com0.r>>)

\* DeviceProof::prove.  The rng is read from position ctr on: z, the
\* randomness of comz, the randomness of the new com1, 4 blindings of pi0,
\* 3 blindings of pi1.
DeviceProve(hs, ro_, sd, ctr, com0, com1_orig, sig, key) ==
    LET z == Rand(sd, ctr)
        h_Q == compute_hQ(com0.m, com1_orig.m, z)
        bases0 == <<com1_orig.bases, com0.bases>>
        g == com0.bases[1]
        h == com0.bases[2]
        bases1 == <<<<h>>, <<g, h>>>>
    IN
    Bind(PedersenOpen(com0.bases, z, Rand(sd, ctr + 1)), LAMBDA comz :
    Bind(PedersenOpen(com0.bases, com1_orig.m, Rand(sd, ctr + 2)), LAMBDA com1 :
    Bind(DLogProve(hs, ro_, CONTEXT_PI0, <<com1_orig.c, com1.c>>, bases0,
                   <<<<com1_orig.m, com1_orig.r>>, <<com1.m, com1.r>>>>,
                   [some |-> TRUE, pairs |-> <<<<0, 0>>>>],
                   FreshBlindings(sd, ctr + 3, bases0)), LAMBDA pi0 :
    Bind(DeviceChallengeTranscript(1, pi0.proof.c, com0.c, com1.c, comz.c, h_Q),
         LAMBDA t1 :
    Bind(DeviceChallengeTranscript(2, pi0.proof.c, com0.c, com1.c, comz.c, h_Q),
         LAMBDA t2 :
    Bind(challenge_bytes(hs, pi0.ro, t1), LAMBDA e1 :
    Bind(RoQuery(pi0.ro, t1), LAMBDA ro1 :
    Bind(challenge_bytes(hs, ro1, t2), LAMBDA e2 :
    Bind(FAdd(FAdd(com0.m, FMul(com1.m, e1)), FMul(z, e2)), LAMBDA m :
    LET ro2 == RoQuery(ro1, t2)
        c == FAdd(FAdd(com0.c, FMul(com1.c, e1)), FMul(comz.c, e2))
        r == FAdd(FAdd(com0.r, FMul(com1.r, e1)), FMul(comz.r, e2))
        lhs1 == FAdd(c, FMul(g, FNeg(m)))
    IN
    Bind(DLogProve(hs, ro2, CONTEXT_PI1, <<lhs1, comz.c>>, bases1,
                   <<<<r>>, <<z, comz.r>>>>,
                   [some |-> FALSE, pairs |-> <<>>],
                   FreshBlindings(sd, ctr + 7, bases1)), LAMBDA pi1 :
       [proof |-> [R |-> sig.r_s.R, digest |-> sig.digest, com1 |-> com1.c,
                   comz |-> comz.c, h_Q |-> h_Q, m |-> m,
                   pi0 |-> pi0.proof, pi1 |-> pi1.proof,
                   pi2 |-> ECDSAProve(key, sig, h_Q, m, e1, e2, z)],
        ro |-> pi1.ro,
        ctr |-> ctr + 10]))))))))))

\* DeviceProof::verify panics: a panic of one of the two DLogPoK::verify calls
DeviceVerifyAborts(proof, com0, com1, bases, bases_com1) ==
    \/ VerifyAborts(proof.pi0, <<bases_com1, bases>>, <<com1, proof.com1>>,
                    [some |-> TRUE, pairs |-> <<<<0, 0>>>>])
    \/ VerifyAborts(proof.pi1, <<<<bases[2]>>, <<bases[1], bases[2]>>>>,
                    <<0, proof.comz>>, [some |-> FALSE, pairs |-> <<>>])

\* DeviceProof::verify without the check of pi2
MutDeviceVerifyWithoutPi2(hs, ro_, proof, com0, com1, bases, bases_com1) ==
    LET g == bases[1]
        h == bases[2]
    IN
    Bind(DLogVerify(hs, ro_, proof.pi0, CONTEXT_PI0, <<bases_com1, bases>>,
                    <<com1, proof.com1>>,
                    [some |-> TRUE, pairs |-> <<<<0, 0>>>>]), LAMBDA pi0 :
    Bind(DeviceChallengeTranscript(1, proof.pi0.c, com0, proof.com1, proof.comz, proof.h_Q),
         LAMBDA t1 :
    Bind(DeviceChallengeTranscript(2, proof.pi0.c, com0, proof.com1, proof.comz, proof.h_Q),
         LAMBDA t2 :
    Bind(challenge_bytes(hs, pi0.ro, t1), LAMBDA e1 :
    Bind(RoQuery(pi0.ro, t1), LAMBDA ro1 :
    Bind(challenge_bytes(hs, ro1, t2), LAMBDA e2 :
    LET ro2 == RoQuery(ro1, t2)
        comm == FAdd(FAdd(com0, FMul(proof.com1, e1)), FMul(proof.comz, e2))
        lhs1 == FAdd(comm, FMul(g, FNeg(proof.m)))
        pi2 == ECDSAVerify(proof.R, proof.digest, proof.h_Q, proof.m, e1, e2, proof.pi2)
    IN
    Bind(DLogVerify(hs, ro2, proof.pi1, CONTEXT_PI1, <<<<h>>, <<g, h>>>>,
                    <<lhs1, proof.comz>>, [some |-> FALSE, pairs |-> <<>>]),
         LAMBDA pi1 :
       [pi0_valid |-> pi0.ok,
        pi1_valid |-> pi0.ok /\ pi1.ok,
        ok |-> pi0.ok /\ pi1.ok,
        ro |-> IF pi0.ok THEN pi1.ro ELSE pi0.ro])))))))

\* DeviceProof::verify: pi0, then pi1, then pi2; the first failure returns false
DeviceVerify(hs, ro_, proof, com0, com1, bases, bases_com1) ==
    LET g == bases[1]
        h == bases[2]
    IN
    Bind(DLogVerify(hs, ro_, proof.pi0, CONTEXT_PI0, <<bases_com1, bases>>,
                    <<com1, proof.com1>>,
                    [some |-> TRUE, pairs |-> <<<<0, 0>>>>]), LAMBDA pi0 :
    Bind(DeviceChallengeTranscript(1, proof.pi0.c, com0, proof.com1, proof.comz, proof.h_Q),
         LAMBDA t1 :
    Bind(DeviceChallengeTranscript(2, proof.pi0.c, com0, proof.com1, proof.comz, proof.h_Q),
         LAMBDA t2 :
    Bind(challenge_bytes(hs, pi0.ro, t1), LAMBDA e1 :
    Bind(RoQuery(pi0.ro, t1), LAMBDA ro1 :
    Bind(challenge_bytes(hs, ro1, t2), LAMBDA e2 :
    LET ro2 == RoQuery(ro1, t2)
        comm == FAdd(FAdd(com0, FMul(proof.com1, e1)), FMul(proof.comz, e2))
        lhs1 == FAdd(comm, FMul(g, FNeg(proof.m)))
        pi2 == ECDSAVerify(proof.R, proof.digest, proof.h_Q, proof.m, e1, e2, proof.pi2)
    IN
    Bind(DLogVerify(hs, ro2, proof.pi1, CONTEXT_PI1, <<<<h>>, <<g, h>>>>,
                    <<lhs1, proof.comz>>, [some |-> FALSE, pairs |-> <<>>]),
         LAMBDA pi1 :
       [pi0_valid |-> pi0.ok,
        pi1_valid |-> pi0.ok /\ pi1.ok,
        ok |-> pi0.ok /\ pi1.ok /\ pi2,
        ro |-> IF pi0.ok THEN pi1.ro ELSE pi0.ro])))))))

\* ------------------------------------------------------------------------
\* lib.rs : create_show_proof, create_show_proof_mdl, verify_show,
\* verify_show_mdl, and what they call in prep_inputs.rs, structs.rs and
\* daystamp.rs
\* ------------------------------------------------------------------------
SHOW_PROOF_VALIDITY_SECONDS == 300

\* the number of bits of the range proofs: 32 in the program, here the
\* largest domain of the model, so that 2^n stays below the order P of the
\* scaled-down scalar field
RANGE_PROOF_INTERVAL_BITS == 2^MaxLogBits

\* Option<bool>
NoBool == [some |-> FALSE, v |-> FALSE]

SomeBool(b) == [some |-> TRUE, v |-> b]

\* Option<BTreeMap<String, u64>>: the entries <<key, value>> in key order
NoRange == [some |-> FALSE, map |-> <<>>]

SomeRange(entries) == [some |-> TRUE, map |-> entries]

\* struct ProofSpec
ProofSpec(revealed, range_over_year, presentation_message, device_bound) ==
    [revealed |-> revealed, range_over_year |-> range_over_year,
     presentation_message |-> presentation_message,
     device_bound |-> device_bound]

\* the claims of the schema: family_name is disclosed by digest, nickname is
\* in the schema but not among the public inputs of the circuit
ConfigClaims ==
    ("email" :> [reveal_digest |-> FALSE, digest_is_bool |-> TRUE, type |-> "string"])
    @@ ("family_name" :> [reveal_digest |-> TRUE, digest_is_bool |-> TRUE,
                          type |-> "string"])
    @@ ("nickname" :> [reveal_digest |-> FALSE, digest_is_bool |-> TRUE,
                       type |-> "string"])
    @@ ("birth_date" :> [reveal_digest |-> FALSE, digest_is_bool |-> TRUE,
                         type |-> "integer"])

\* the same schema with "reveal_digest": "true", a string, in the entry of
\* email
ConfigClaimsTextDigest == [ConfigClaims EXCEPT !["email"].digest_is_bool = FALSE]

\* config files: two texts of the same schema, and one without "alg"
ConfigStr == "{alg:RS256,claims}"

ConfigStrSpaced == "{ alg:RS256, claims }"

ConfigStrNoAlg == "{claims}"

ConfigStrTextDigest == "{alg:RS256,claims,email:{reveal_digest:'true'}}"

\* parse_config: Err when "alg" is missing
parse_config(config_str) ==
    IF config_str \in {ConfigStr, ConfigStrSpaced}
    THEN [ok |-> TRUE, claims |-> ConfigClaims]
    ELSE IF config_str = ConfigStrTextDigest
    THEN [ok |-> TRUE, claims |-> ConfigClaimsTextDigest]
    ELSE [ok |-> FALSE, claims |-> <<>>]

\* ProofSpecInternal.claim_types: claim name -> the "type" of its config entry
ClaimTypes(config_str) ==
    LET config == parse_config(config_str)
    IN [a \in DOMAIN config.claims |-> config.claims[a].type]

\* create_proof_spec_internal: Err for an unparsable config, an attribute
\* that is not in the config, or device_bound without presentation_message;
\* a panic (as_bool().unwrap()) for an attribute whose reveal_digest is not
\* a boolean.  The loop over the attributes stops at the first of them that
\* is not in the config or has such a reveal_digest.
create_proof_spec_internal(proof_spec, config_str) ==
    LET config == parse_config(config_str)
        stops(k) ==
            \/ proof_spec.revealed[k] \notin DOMAIN config.claims
            \/ ~config.claims[proof_spec.revealed[k]].digest_is_bool
        first == CHOOSE k \in 1..Len(proof_spec.revealed) :
                    stops(k) /\ \A j \in 1..(k - 1) : ~stops(j)
        digest(a) == config.claims[a].reveal_digest
        device_bound == proof_spec.device_bound.some /\ proof_spec.device_bound.v
        internal ==
            [revealed |-> SelectSeq(proof_spec.revealed, LAMBDA a : ~digest(a)),
             range_over_year |-> IF proof_spec.range_over_year.some
                                 THEN proof_spec.range_over_year.map ELSE <<>>,
             hashed |-> SelectSeq(proof_spec.revealed, LAMBDA a : digest(a)),
             presentation_message |-> proof_spec.presentation_message,
             device_bound |-> device_bound,
             config_str |-> config_str]
        none == [revealed |-> <<>>, range_over_year |-> <<>>, hashed |-> <<>>,
                 presentation_message |-> NoneCtx, device_bound |-> FALSE,
                 config_str |-> config_str]
    IN IF ~config.ok THEN [ok |-> FALSE, panic |-> FALSE, spec |-> none]
       ELSE IF \E k \in 1..Len(proof_spec.revealed) : stops(k)
            THEN [ok |-> FALSE,
                  panic |-> proof_spec.revealed[first] \in DOMAIN config.claims,
                  spec |-> none]
       ELSE IF device_bound /\ ~proof_spec.presentation_message.some
            THEN [ok |-> FALSE, panic |-> FALSE, spec |-> none]
       ELSE [ok |-> TRUE, panic |-> FALSE, spec |-> internal]

\* serde_json::to_string(&proof_spec) of the ProofSpecInternal: every field
\* with its name, in the order of the declaration
Serialize(ps) ==
    <<<<"revealed", ps.revealed>>, <<"range_over_year", ps.range_over_year>>,
      <<"hashed", ps.hashed>>,
      <<"presentation_message", ps.presentation_message>>,
      <<"device_bound", ps.device_bound>>, <<"config_str", ps.config_str>>,
      <<"claim_types", ClaimTypes(ps.config_str)>>>>

\* IOLocations of the two circuits: name -> position (1-based)
IOLocations(credtype) ==
    IF credtype = "mdl"
    THEN ("family_name_digest" :> 1) @@ ("pubkey_hash" :> 2)
         @@ ("valid_until_value" :> 3) @@ ("device_key_0_value" :> 4)
         @@ ("device_key_1_value" :> 5) @@ ("birth_date_value" :> 6)
         @@ ("email_value" :> 7)
    ELSE ("family_name_digest" :> 1) @@ ("modulus_0" :> 2)
         @@ ("exp_value" :> 3) @@ ("email_value" :> 4)
         @@ ("device_key_0_value" :> 5) @@ ("device_key_1_value" :> 6)

\* IOLocations::get_io_location(key).is_ok()
HasLocation(io, key) == key \in DOMAIN io

\* the positions of the labels attr ++ suffix, in the order of attrs
Locations(io, attrs, suffix) == Vec([k \in 1..Len(attrs) |-> io[attrs[k] \o suffix]])

\* the keys k with k.starts_with("modulus") || k.starts_with("pubkey")
PublicKeyNames == {"modulus_0", "pubkey_hash"}

\* IOLocations::get_public_key_indices: the 0-based indices, sorted
get_public_key_indices(io) ==
    SortSeq(LET keys == DOMAIN io \cap PublicKeyNames
                f == CHOOSE g \in [1..Cardinality(keys) -> keys] :
                        \A a, b \in 1..Cardinality(keys) : a # b => g[a] # g[b]
            IN Vec([k \in 1..Cardinality(keys) |-> io[f[k]] - 1]),
            LAMBDA a, b : a < b)

\* io_types[pos - 1] = ty for each position of a list, in the order of the list
RECURSIVE SetIoTypes(_, _, _)
SetIoTypes(io_types, positions, ty) ==
    IF positions = <<>> THEN io_types
    ELSE SetIoTypes([io_types EXCEPT ![Head(positions)] = ty], Tail(positions), ty)

\* io_types[pos - 1] is inside a vector of len entries
IndexOk(pos, len) == pos >= 1 /\ pos <= len

AllIndexOk(positions, len) == \A k \in 1..Len(positions) : IndexOk(positions[k], len)

\* sort_by_io_location: attrs ordered by the location of attr_digest
sort_by_io_location(attrs, io) ==
    SortSeq(attrs, LAMBDA a, b : io[a \o "_digest"] < io[b \o "_digest"])

\* Sha256::digest(data), truncated to 248 bits, as a scalar: injective on the
\* byte strings of the model.  A byte string is a text with or without
\* surrounding double quotes.
DigestScalar(data) ==
    LET code == ("Doe" :> 1) @@ ("Roe" :> 2)
    IN (100 + 2 * code[data.text] + (IF data.quoted THEN 1 ELSE 0)) % P

\* a serde_json Value: a String of bytes s, or a Number
JsonString(quoted, text) == [kind |-> "string", s |-> [quoted |-> quoted, text |-> text]]

JsonNumber(text) == [kind |-> "number", s |-> [quoted |-> FALSE, text |-> text]]

\* Option<String> revealed_preimages: a JSON text; map holds the object it
\* parses to
NoPreimages == [some |-> FALSE, parses |-> FALSE, map |-> <<>>]

SomePreimages(map) == [some |-> TRUE, parses |-> TRUE, map |-> map]

\* pack_string_to_int of the e-mail address of the credential
PackedEmail == Gen(500)

\* unpack_int_to_string_unquoted: Err unless the bytes are UTF-8
unpack_int_to_string_unquoted(v) ==
    IF v = PackedEmail THEN [ok |-> TRUE, s |-> "alice@example.com"]
    ELSE [ok |-> FALSE, s |-> ""]

\* VerifierParams.issuer_pem
IssuerPem == "issuer.pem"

\* pem_to_inputs / pem_to_pubkey_hash: the public inputs of the issuer's key
pem_to_inputs(issuer_pem) ==
    IF issuer_pem = IssuerPem THEN [ok |-> TRUE, v |-> <<Gen(600)>>]
    ELSE [ok |-> FALSE, v |-> <<>>]

\* ------------------------------------------------------------------------
\* daystamp.rs
\* ------------------------------------------------------------------------
\* Local::now().date_naive(): <<year, month, day>>
Today == <<2026, 11, 6>>

DAYS_IN_MONTH == <<31, 28, 31, 30, 31, 30, 31, 31, 30, 31, 30, 31>>

DAYS_BEFORE_MONTH == <<0, 31, 59, 90, 120, 151, 181, 212, 243, 273, 304, 334>>

is_leap(year) == (year % 4 = 0) /\ ((year % 100 # 0) \/ (year % 400 = 0))

\* days_before_year without the 365 days of every year
MutLeapDaysOnly(year) ==
    LET y == year - 1
    IN (y \div 4) + (y \div 100) + (y \div 400)

days_before_year(year) ==
    LET y == year - 1
    IN y * 365 + (y \div 4) + (y \div 100) + (y \div 400)

days_in_month(year, month) ==
    IF month = 2 /\ is_leap(year) THEN 29 ELSE DAYS_IN_MONTH[month]

days_before_month(year, month) ==
    DAYS_BEFORE_MONTH[month] + (IF month > 2 /\ is_leap(year) THEN 1 ELSE 0)

ymd_to_ordinal(year, month, day) ==
    days_before_year(year) + days_before_month(year, month) + day

\* the day days_to_be_age uses for the past date: 29 February becomes 28
PastDay(date) == IF date[2] = 2 /\ date[3] = 29 THEN 28 ELSE date[3]

\* days_to_be_age panics: year - age or year - 1 underflows, the day is not
\* in the month of the past year, or today_stamp > past_stamp fails
DaysToBeAgeAborts(date, age) ==
    \/ date[1] - age < 1
    \/ PastDay(date) > days_in_month(date[1] - age, date[2])
    \/ ymd_to_ordinal(date[1], date[2], date[3])
           <= ymd_to_ordinal(date[1] - age, date[2], PastDay(date))

days_to_be_age(date, age) ==
    ymd_to_ordinal(date[1], date[2], date[3])
        - ymd_to_ordinal(date[1] - age, date[2], PastDay(date))

\* usize is 64 bits wide.  Where a value can exceed the integers above, it is
\* the sequence of its four 16-bit limbs, the least significant first.
LimbBase == 2^16

\* the usize of a number below 2^31
U64(n) == <<n % LimbBase, n \div LimbBase, 0, 0>>

U64Small(a) == a[3] = 0 /\ a[4] = 0 /\ a[2] < 32768

U64ToNat(a) == a[1] + LimbBase * a[2]

RECURSIVE U64AddFrom(_, _, _, _)
U64AddFrom(a, b, i, carry) ==
    IF i > 4 THEN <<>>
    ELSE <<(a[i] + b[i] + carry) % LimbBase>>
             \o U64AddFrom(a, b, i + 1, (a[i] + b[i] + carry) \div LimbBase)

wrapping_add(a, b) == U64AddFrom(a, b, 1, 0)

RECURSIVE U64SubFrom(_, _, _, _)
U64SubFrom(a, b, i, borrow) ==
    IF i > 4 THEN <<>>
    ELSE <<(a[i] - b[i] - borrow + LimbBase) % LimbBase>>
             \o U64SubFrom(a, b, i + 1, IF a[i] - b[i] - borrow < 0 THEN 1 ELSE 0)

wrapping_sub(a, b) == U64SubFrom(a, b, 1, 0)

\* the product with a number below 2^15
RECURSIVE U64MulFrom(_, _, _, _)
U64MulFrom(a, c, i, carry) ==
    IF i > 4 THEN <<>>
    ELSE <<(a[i] * c + carry) % LimbBase>>
             \o U64MulFrom(a, c, i + 1, (a[i] * c + carry) \div LimbBase)

wrapping_mul(a, c) == U64MulFrom(a, c, 1, 0)

\* quotient and remainder of the division by a number below 2^15, from the
\* most significant limb down
RECURSIVE U64DivFrom(_, _, _, _)
U64DivFrom(a, c, i, rem) ==
    IF i < 1 THEN <<>>
    ELSE U64DivFrom(a, c, i - 1, (rem * LimbBase + a[i]) % c)
             \o <<(rem * LimbBase + a[i]) \div c>>

U64Div(a, c) == U64DivFrom(a, c, 4, 0)

RECURSIVE U64RemFrom(_, _, _, _)
U64RemFrom(a, c, i, rem) ==
    IF i < 1 THEN rem ELSE U64RemFrom(a, c, i - 1, (rem * LimbBase + a[i]) % c)

U64Rem(a, c) == U64RemFrom(a, c, 4, 0)

RECURSIVE U64LessFrom(_, _, _)
U64LessFrom(a, b, i) ==
    IF i < 1 THEN FALSE
    ELSE IF a[i] # b[i] THEN a[i] < b[i]
    ELSE U64LessFrom(a, b, i - 1)

U64Less(a, b) == U64LessFrom(a, b, 4)

\* the functions of daystamp.rs as a build without overflow checks computes
\* them: the arithmetic of usize wraps modulo 2^64
is_leap_wrapping(year) ==
    U64Rem(year, 4) = 0 /\ (U64Rem(year, 100) # 0 \/ U64Rem(year, 400) = 0)

days_before_year_wrapping(year) ==
    Bind(wrapping_sub(year, U64(1)), LAMBDA y :
       wrapping_add(wrapping_add(wrapping_add(wrapping_mul(y, 365), U64Div(y, 4)),
                                 U64Div(y, 100)),
                    U64Div(y, 400)))

days_in_month_wrapping(year, month) ==
    IF month = 2 /\ is_leap_wrapping(year) THEN 29 ELSE DAYS_IN_MONTH[month]

ymd_to_ordinal_wrapping(year, month, day) ==
    wrapping_add(days_before_year_wrapping(year),
                 U64(DAYS_BEFORE_MONTH[month]
                     + (IF month > 2 /\ is_leap_wrapping(year) THEN 1 ELSE 0) + day))

\* the builds of the crate: with the overflow checks of the dev profile, and
\* without them (the release profile)
Builds == {"debug", "release"}

DaysAbort(date) ==
    [status |-> "abort",
     today_stamp |-> ymd_to_ordinal(date[1], date[2], date[3]), days |-> 0]

\* one call of days_to_be_age(age) on the day date, age a number below 2^31
DaysToBeAge(date, age) ==
    IF DaysToBeAgeAborts(date, age) THEN DaysAbort(date)
    ELSE [status |-> "ok",
          today_stamp |-> ymd_to_ordinal(date[1], date[2], date[3]),
          days |-> days_to_be_age(date, age)]

\* one call of days_to_be_age(age) in a build without overflow checks, age a
\* usize: the asserts of ymd_to_ordinal and of days_to_be_age are the only
\* panics
DaysToBeAgeWrapping(date, age) ==
    Bind(wrapping_sub(U64(date[1]), age), LAMBDA year :
       IF PastDay(date) > days_in_month_wrapping(year, date[2]) THEN DaysAbort(date)
       ELSE Bind(ymd_to_ordinal_wrapping(year, date[2], PastDay(date)), LAMBDA past_stamp :
          IF ~U64Less(past_stamp, U64(ymd_to_ordinal(date[1], date[2], date[3])))
          THEN DaysAbort(date)
          ELSE [status |-> "ok",
                today_stamp |-> ymd_to_ordinal(date[1], date[2], date[3]),
                days |-> U64ToNat(wrapping_sub(
                             U64(ymd_to_ordinal(date[1], date[2], date[3])),
                             past_stamp))]))

\* one call of days_to_be_age(age) in a build, age a usize.  With overflow
\* checks year - age panics for an age above the year.
DaysToBeAgeOf(build, date, age) ==
    IF build = "release" THEN DaysToBeAgeWrapping(date, age)
    ELSE IF ~U64Small(age) THEN DaysAbort(date)
    ELSE DaysToBeAge(date, U64ToNat(age))

\* ------------------------------------------------------------------------
\* lib.rs : create_show_proof, create_show_proof_mdl
\* ------------------------------------------------------------------------
\* values of the fields before the first call
NoProof == [c |-> 0, s |-> <<>>]

NoShow == [rand_proof |-> [a |-> 0, b |-> 0, c |-> 0], com_hidden_inputs |-> 0,
           pok_inputs |-> NoProof, commited_inputs |-> <<>>]

NoDeviceProof == [some |-> FALSE, proof |-> <<>>]

NoShowRange == [range_proof |-> <<>>]

NoShowProof ==
    [show_groth16 |-> NoShow, show_range_exp |-> NoShowRange,
     show_range_attr |-> <<>>, revealed_inputs |-> <<>>,
     revealed_preimages |-> NoPreimages, inputs_len |-> 0, cur_time |-> 0,
     device_proof |-> NoDeviceProof]

\* what a call of create_show_proof leaves behind: Ok(ShowProof), Err, or a
\* panic; openings is client_state.committed_input_openings afterwards
ShowOk(proof, openings, ro_, ctr) ==
    [status |-> "ok", proof |-> proof, openings |-> openings, ro |-> ro_, ctr |-> ctr]

ShowErr(cs, ro_, ctr) ==
    [status |-> "err", proof |-> NoShowProof,
     openings |-> cs.committed_input_openings, ro |-> ro_, ctr |-> ctr]

ShowAbort(openings, ro_, ctr) ==
    [status |-> "abort", proof |-> NoShowProof, openings |-> openings,
     ro |-> ro_, ctr |-> ctr]

\* com.m -= t, without the update of com.c
MutShiftMessageOnly(com, t) == [com EXCEPT !.m = FSub(com.m, t)]

\* com.m -= t; com.c -= com.bases[0] * t
ShiftOpening(com, t) ==
    [com EXCEPT !.m = FSub(com.m, t), !.c = FSub(com.c, FMul(com.bases[1], t))]

\* ClientState::show_range panics: assert!(n < 64), assert!(ped_open.m < bound)
ShowRangeAborts(ped_open, n) == n >= 64 \/ ~(ped_open.m < 2^n)

\* ClientState::show_range: a panic, or the ShowRange with the oracle table
\* and the rng position afterwards
show_range(hs, ro_, sd, ctr, ped_open, n, pp) ==
    IF ShowRangeAborts(ped_open, n)
    THEN [status |-> "abort", show |-> NoShowRange, ro |-> ro_, ctr |-> ctr]
    ELSE Bind(prove_n_bits(hs, ro_, sd, ctr, ped_open, n, pp), LAMBDA rp :
            [status |-> "ok", show |-> [range_proof |-> rp.proof],
             ro |-> rp.ro, ctr |-> rp.ctr])

\* the preimages the holder sends: json!(aux[attr].to_string()) for a JWT
\* credential, aux[attr] for an mDL
HolderPreimages(cs, hashed) ==
    IF hashed = <<>> THEN NoPreimages
    ELSE SomePreimages([a \in { hashed[k] : k \in 1..Len(hashed) } |->
                           JsonString(cs.credtype # "mdl", cs.aux.claims[a])])

\* the io_types of the holder and of the verifier: Hidden, then Committed at
\* the expiry, Committed at the range-proved attributes (mDL), Revealed at the
\* issuer key, the revealed and the hashed attributes, Committed at the device
\* key, each write replacing what was there
ShowIoTypes(io, len, exp_label, range_attrs, revealed, hashed, device_bound) ==
    LET pk == get_public_key_indices(io)
        t0 == Vec([i \in 1..len |-> Hidden])
        t1 == SetIoTypes(t0, <<io[exp_label]>>, Committed)
        t2 == SetIoTypes(t1, Locations(io, range_attrs, "_value"), Committed)
        t3 == SetIoTypes(t2, Vec([k \in 1..Len(pk) |-> pk[k] + 1]), Revealed)
        t4 == SetIoTypes(t3, Locations(io, revealed, "_value"), Revealed)
        t5 == SetIoTypes(t4, Locations(io, hashed, "_digest"), Revealed)
    IN IF device_bound
       THEN SetIoTypes(t5, <<io["device_key_0_value"], io["device_key_1_value"]>>,
                       Committed)
       ELSE t5

\* the attribute names of range_over_year
RangeAttrs(ps) == Vec([k \in 1..Len(ps.range_over_year) |-> ps.range_over_year[k][1]])

\* the device proof of create_show_proof: panics without a signature, with
\* fewer than three openings, or inside DeviceProof::prove
HolderDeviceAborts(cs, openings, ps, device_signature) ==
    \/ Len(openings) < 3
    \/ ~device_signature.some
    \/ ~cs.aux.some
    \/ DeviceProveAborts(openings[2], openings[3],
                         ECDSASig(ps.presentation_message.bytes, device_signature.bytes),
                         cs.aux.device_pub)

\* the device proof of a show: none unless the spec is device bound, else a
\* panic or the DeviceProof made from committed_input_openings[1] and [2]
HolderDevice(hs, ro_, sd, ctr, cs, openings, ps, device_signature) ==
    IF ~ps.device_bound
    THEN [status |-> "ok", proof |-> NoDeviceProof, ro |-> ro_, ctr |-> ctr]
    ELSE IF HolderDeviceAborts(cs, openings, ps, device_signature)
    THEN [status |-> "abort", proof |-> NoDeviceProof, ro |-> ro_, ctr |-> ctr]
    ELSE Bind(DeviceProve(hs, ro_, sd, ctr, openings[2], openings[3],
                          ECDSASig(ps.presentation_message.bytes,
                                   device_signature.bytes),
                          cs.aux.device_pub), LAMBDA dp :
            [status |-> "ok", proof |-> [some |-> TRUE, proof |-> dp.proof],
             ro |-> dp.ro, ctr |-> dp.ctr])

\* the range proofs of the attributes of range_over_year (mDL), each for
\* committed_input_openings[commitment_index] shifted by days_to_be_age(age);
\* k is the number of proofs made so far
RECURSIVE HolderRangeAttrs(_, _, _, _, _, _, _, _)
HolderRangeAttrs(hs, ro_, sd, ctr, openings, roy, pp, k) ==
    IF k >= Len(roy) THEN [status |-> "ok", proofs |-> <<>>, ro |-> ro_, ctr |-> ctr]
    ELSE IF DaysToBeAgeAborts(Today, roy[k + 1][2]) \/ Len(openings) < k + 4
    THEN [status |-> "abort", proofs |-> <<>>, ro |-> ro_, ctr |-> ctr]
    ELSE LET com_attr == ShiftOpening(openings[k + 4],
                                      days_to_be_age(Today, roy[k + 1][2]) % P)
         IN Bind(show_range(hs, ro_, sd, ctr, com_attr,
                            RANGE_PROOF_INTERVAL_BITS, pp), LAMBDA rp :
            IF rp.status = "abort"
            THEN [status |-> "abort", proofs |-> <<>>, ro |-> ro_, ctr |-> ctr]
            ELSE [HolderRangeAttrs(hs, rp.ro, sd, rp.ctr, openings, roy, pp, k + 1)
                      EXCEPT !.proofs = <<rp.show>> \o @])

\* create_show_proof_mdl when is_mdl, create_show_proof otherwise.  The two
\* differ in the label of the expiry, in the order of the first steps (the
\* mDL function resolves the spec before it reads the expiry location), in
\* the Committed range attributes and their range proofs, and in the mDL
\* function unwrapping the location of a revealed attribute.
CreateShowProof(is_mdl, hs, ro_, sd, ctr, cs, pp, io, proof_spec, device_signature, time_sec) ==
    LET exp_label == IF is_mdl THEN "valid_until_value" ELSE "exp_value"
        len == Len(cs.inputs)
        old == cs.committed_input_openings
        unknown_value(attrs) ==
            \E k \in 1..Len(attrs) : ~HasLocation(io, attrs[k] \o "_value")
    IN
    Bind(create_proof_spec_internal(proof_spec, cs.config_str), LAMBDA res :
    Bind(res.spec, LAMBDA ps :
    Bind(IF is_mdl THEN RangeAttrs(ps) ELSE <<>>, LAMBDA range_attrs :
    LET io_types == ShowIoTypes(io, len, exp_label, range_attrs, ps.revealed,
                                ps.hashed, ps.device_bound)
        revealed_inputs ==
            Vec([k \in 1..Len(ps.revealed) |-> cs.inputs[io[ps.revealed[k] \o "_value"]]])
        roy == IF is_mdl THEN ps.range_over_year ELSE <<>>
        unknown_digest == \E k \in 1..Len(ps.hashed) :
                             ~HasLocation(io, ps.hashed[k] \o "_digest")
    IN IF ~is_mdl /\ (~HasLocation(io, exp_label) \/ ~IndexOk(io[exp_label], len))
       THEN ShowAbort(old, ro_, ctr)
       ELSE IF res.panic THEN ShowAbort(old, ro_, ctr)
       ELSE IF ~res.ok THEN ShowErr(cs, ro_, ctr)
       ELSE IF is_mdl /\ (~HasLocation(io, exp_label) \/ ~IndexOk(io[exp_label], len)
                           \/ unknown_value(range_attrs) \/ unknown_value(ps.revealed))
       THEN ShowAbort(old, ro_, ctr)
       ELSE IF unknown_value(ps.revealed) THEN ShowErr(cs, ro_, ctr)
       ELSE IF unknown_digest THEN ShowErr(cs, ro_, ctr)
       ELSE IF ps.hashed # <<>> /\ ~cs.aux.some THEN ShowErr(cs, ro_, ctr)
       ELSE IF ps.device_bound /\ (~HasLocation(io, "device_key_0_value")
                                    \/ ~HasLocation(io, "device_key_1_value"))
       THEN ShowAbort(old, ro_, ctr)
       ELSE
    Bind(show_groth16(hs, ro_, sd, ctr, cs, SomeCtx(Serialize(ps)), io_types),
         LAMBDA sg :
    Bind(show_range(hs, sg.ro, sd, sg.ctr, ShiftOpening(sg.openings[1], time_sec % P),
                    RANGE_PROOF_INTERVAL_BITS, pp), LAMBDA rexp :
       IF rexp.status = "abort" THEN ShowAbort(sg.openings, sg.ro, sg.ctr)
       ELSE
    Bind(HolderDevice(hs, rexp.ro, sd, rexp.ctr, cs, sg.openings, ps,
                      device_signature), LAMBDA dp :
       IF dp.status = "abort" THEN ShowAbort(sg.openings, rexp.ro, rexp.ctr)
       ELSE
    Bind(HolderRangeAttrs(hs, dp.ro, sd, dp.ctr, sg.openings, roy, pp, 0),
         LAMBDA ra :
       IF ra.status = "abort" THEN ShowAbort(sg.openings, ra.ro, ra.ctr)
       ELSE ShowOk([show_groth16 |-> sg.show,
                    show_range_exp |-> rexp.show,
                    show_range_attr |-> ra.proofs,
                    revealed_inputs |-> revealed_inputs,
                    revealed_preimages |-> HolderPreimages(cs, ps.hashed),
                    inputs_len |-> len,
                    cur_time |-> time_sec,
                    device_proof |-> dp.proof],
                   sg.openings, ra.ro, ra.ctr))))))))

create_show_proof(hs, ro_, sd, ctr, cs, pp, io, proof_spec, device_signature, time_sec) ==
    CreateShowProof(FALSE, hs, ro_, sd, ctr, cs, pp, io, proof_spec, device_signature, time_sec)

create_show_proof_mdl(hs, ro_, sd, ctr, cs, pp, proof_spec, io, device_signature, time_sec) ==
    CreateShowProof(TRUE, hs, ro_, sd, ctr, cs, pp, io, proof_spec, device_signature, time_sec)

\* ------------------------------------------------------------------------
\* lib.rs : verify_show, verify_show_mdl
\* ------------------------------------------------------------------------
\* the String "" of the return value; a String is the sequence of its parts
EmptyString == <<>>

DeviceProofMissing == <<"Device proof missing in show_proof">>

\* outcomes of a call: it returns (ok, out), or it panics.  at names the step
\* of the function that ended the call, log lists the checks of the proof that
\* were executed, in order
Returned(ok, out, at, log, ro_) ==
    [status |-> "ret", ok |-> ok, out |-> out, at |-> at, log |-> log, ro |-> ro_]

Failed(at, log, ro_) == Returned(FALSE, EmptyString, at, log, ro_)

Aborted(at, log, ro_) ==
    [status |-> "abort", ok |-> FALSE, out |-> EmptyString, at |-> at,
     log |-> log, ro |-> ro_]

MutAbsDiff(a, b) == IF a >= b THEN a - b ELSE b - a

\* u64::saturating_sub
saturating_sub(a, b) == IF a >= b THEN a - b ELSE 0

MutStaleFromWindow(now_seconds, cur_time) ==
    saturating_sub(now_seconds, cur_time) >= SHOW_PROOF_VALIDITY_SECONDS

MutNeverStale(now_seconds, cur_time) == FALSE

\* lines 637-641: delta = now_seconds.saturating_sub(show_proof.cur_time);
\* delta > SHOW_PROOF_VALIDITY_SECONDS
IsStale(now_seconds, cur_time) ==
    saturating_sub(now_seconds, cur_time) > SHOW_PROOF_VALIDITY_SECONDS

\* the loop over proof_spec.revealed: "ret" at the first attribute without a
\* location, "abort" at the first location outside io_types
RECURSIVE RevealLoop(_, _, _, _)
RevealLoop(io, attrs, len, k) ==
    IF k > Len(attrs) THEN "ok"
    ELSE IF ~HasLocation(io, attrs[k] \o "_value") THEN "ret"
    ELSE IF ~IndexOk(io[attrs[k] \o "_value"], len) THEN "abort"
    ELSE RevealLoop(io, attrs, len, k + 1)

\* the loop over the sorted hashed attributes: "abort" at a location outside
\* io_types, "ret" at a preimage that is missing or not a String
RECURSIVE HashedLoop(_, _, _, _, _)
HashedLoop(io, attrs, preimages, len, k) ==
    IF k > Len(attrs) THEN "ok"
    ELSE IF ~IndexOk(io[attrs[k] \o "_digest"], len) THEN "abort"
    ELSE IF attrs[k] \notin DOMAIN preimages THEN "ret"
    ELSE IF preimages[attrs[k]].kind # "string" THEN "ret"
    ELSE HashedLoop(io, attrs, preimages, len, k + 1)

\* verify_show, lines 623-626: inputs = revealed_hashed (the digests of the
\* preimages, in the order of the sorted hashed attributes), then
\* public_key_inputs, then show_proof.revealed_inputs
AssembleInputs(hashed_attributes, preimages, public_key_inputs, revealed_inputs) ==
    Vec([k \in 1..Len(hashed_attributes) |->
            DigestScalar(preimages[hashed_attributes[k]].s)])
    \o public_key_inputs \o revealed_inputs

\* ShowRange::verify
ShowRangeVerify(hs, ro_, self, ped_com, n, vp, input_label) ==
    verify_n_bits(hs, ro_, self.range_proof, ped_com,
                  <<GammaAbc(vp.vk, vp.io_locations[input_label]), vp.vk.delta_g1>>,
                  n, vp.range_vk)

\* verify_show_mdl, lines 863-892: the loop over show_proof.show_range_attr;
\* i is the 0-based index of the next proof
RECURSIVE RangeAttrLoop(_, _, _, _, _, _, _)
RangeAttrLoop(hs, ro_, vp, show_proof, ps, log, i) ==
    IF i >= Len(show_proof.show_range_attr)
    THEN [status |-> "ok", log |-> log, ro |-> ro_]
    ELSE IF i >= Len(ps.range_over_year)
            \/ DaysToBeAgeAborts(Today, ps.range_over_year[i + 1][2])
            \/ i + 3 >= Len(show_proof.show_groth16.commited_inputs)
    THEN [status |-> "abort", log |-> log, ro |-> ro_]
    ELSE LET attr_label == ps.range_over_year[i + 1][1] \o "_value"
             days_in_age == days_to_be_age(Today, ps.range_over_year[i + 1][2]) % P
             ped_com_attr_value ==
                 FSub(show_proof.show_groth16.commited_inputs[i + 4],
                      FMul(GammaAbc(vp.vk, vp.io_locations[attr_label]), days_in_age))
         IN IF ~HasLocation(vp.io_locations, attr_label)
            THEN [status |-> "ret", log |-> log, ro |-> ro_]
            ELSE Bind(ShowRangeVerify(hs, ro_, show_proof.show_range_attr[i + 1],
                                      ped_com_attr_value, RANGE_PROOF_INTERVAL_BITS,
                                      vp, attr_label), LAMBDA rr :
                 IF ~rr.ok
                 THEN [status |-> "ret", log |-> Append(log, "range_attr"), ro |-> rr.ro]
                 ELSE RangeAttrLoop(hs, rr.ro, vp, show_proof, ps,
                                    Append(log, "range_attr"), i + 1))

\* the JSON object of the revealed attributes: the revealed values, then the
\* preimages of the hashed attributes with their quotes stripped
RevealedOutput(show_proof, ps, number_type) ==
    <<"{",
      Vec([k \in 1..Len(ps.revealed) |->
          <<ps.revealed[k] \o "_value",
            IF ClaimTypes(ps.config_str)[ps.revealed[k]] = number_type
            THEN ToString(show_proof.revealed_inputs[k])
            ELSE unpack_int_to_string_unquoted(show_proof.revealed_inputs[k]).s>>])
      \o Vec([k \in 1..Len(ps.hashed) |->
             <<ps.hashed[k], show_proof.revealed_preimages.map[ps.hashed[k]].s.text>>]),
      "}">>

\* the end of verify_show (lines 661-721) and of verify_show_mdl (lines
\* 894-953): the device proof, then the output
FinishVerify(hs, ro_, vp, show_proof, ps, log, number_type) ==
    LET io == vp.io_locations
        sg == show_proof.show_groth16
        unpack_fails ==
            \E k \in 1..Len(ps.revealed) :
                /\ ClaimTypes(ps.config_str)[ps.revealed[k]] # number_type
                /\ ~unpack_int_to_string_unquoted(show_proof.revealed_inputs[k]).ok
    IN IF ps.device_bound /\ Len(sg.commited_inputs) < 3
       THEN Aborted("device", log, ro_)
       ELSE IF ps.device_bound /\ ~show_proof.device_proof.some
       THEN Returned(FALSE, DeviceProofMissing, "device_missing", log, ro_)
       ELSE IF ps.device_bound
               /\ DeviceVerifyAborts(show_proof.device_proof.proof,
                      sg.commited_inputs[2], sg.commited_inputs[3],
                      <<GammaAbc(vp.vk, io["device_key_0_value"]), vp.vk.delta_g1>>,
                      <<GammaAbc(vp.vk, io["device_key_1_value"]), vp.vk.delta_g1>>)
       THEN Aborted("device", log, ro_)
       ELSE
    Bind(IF ps.device_bound
         THEN DeviceVerify(hs, ro_, show_proof.device_proof.proof,
                           sg.commited_inputs[2], sg.commited_inputs[3],
                           <<GammaAbc(vp.vk, io["device_key_0_value"]), vp.vk.delta_g1>>,
                           <<GammaAbc(vp.vk, io["device_key_1_value"]), vp.vk.delta_g1>>)
         ELSE [ok |-> TRUE, ro |-> ro_], LAMBDA dv :
    Bind(IF ps.device_bound THEN Append(log, "device") ELSE log, LAMBDA log_d :
       IF ~dv.ok THEN Failed("device", log_d, dv.ro)
       ELSE IF Len(show_proof.revealed_inputs) < Len(ps.revealed)
       THEN Aborted("output", log_d, dv.ro)
       ELSE IF unpack_fails THEN Failed("output", log_d, dv.ro)
       ELSE IF \E k \in 1..Len(ps.hashed) :
                   ps.hashed[k] \notin DOMAIN show_proof.revealed_preimages.map
       THEN Failed("output", log_d, dv.ro)
       ELSE Returned(TRUE, RevealedOutput(show_proof, ps, number_type), "accept",
                     log_d, dv.ro)))

\* what verify_show and verify_show_mdl do between the resolution of the spec
\* and the range proof of the expiry (lines 549-659 and 753-861)
VerifyCore(is_mdl, hs, ro_, vp, show_proof, ps, now_seconds) ==
    LET io == vp.io_locations
        len == show_proof.inputs_len
        exp_label == IF is_mdl THEN "valid_until_value" ELSE "exp_value"
        range_attrs == IF is_mdl THEN RangeAttrs(ps) ELSE <<>>
        rl == RevealLoop(io, ps.revealed, len, 1)
        pre == show_proof.revealed_preimages
        public_key_inputs == pem_to_inputs(vp.issuer_pem)
        context == SomeCtx(Serialize(ps))
        sg == show_proof.show_groth16
        log1 == <<"groth16", "dlog_pok">>
        log2 == Append(log1, "freshness")
        log3 == Append(log2, "range_exp")
        cur_time == show_proof.cur_time % P
        ped_com_exp_value ==
            FSub(sg.commited_inputs[1], FMul(GammaAbc(vp.vk, io[exp_label]), cur_time))
    IN IF rl = "ret" THEN Failed("revealed", <<>>, ro_)
       ELSE IF rl = "abort" THEN Aborted("revealed", <<>>, ro_)
       ELSE IF ps.hashed # <<>> /\ ~pre.some THEN Aborted("preimages", <<>>, ro_)
       ELSE IF ps.hashed # <<>> /\ ~pre.parses THEN Failed("preimages", <<>>, ro_)
       ELSE IF \E k \in 1..Len(ps.hashed) : ~HasLocation(io, ps.hashed[k] \o "_digest")
       THEN Aborted("preimages", <<>>, ro_)
       ELSE
    Bind(sort_by_io_location(ps.hashed, io), LAMBDA hashed_attributes :
    Bind(HashedLoop(io, hashed_attributes, pre.map, len, 1), LAMBDA hl :
       IF hl = "ret" THEN Failed("preimages", <<>>, ro_)
       ELSE IF hl = "abort" THEN Aborted("preimages", <<>>, ro_)
       ELSE IF ps.device_bound
               /\ (~HasLocation(io, "device_key_0_value")
                   \/ ~HasLocation(io, "device_key_1_value")
                   \/ ~IndexOk(io["device_key_0_value"], len)
                   \/ ~IndexOk(io["device_key_1_value"], len))
       THEN Aborted("device_keys", <<>>, ro_)
       ELSE IF ~public_key_inputs.ok THEN Failed("issuer_key", <<>>, ro_)
       ELSE
    Bind(ShowIoTypes(io, len, exp_label, range_attrs, ps.revealed,
                     hashed_attributes, ps.device_bound), LAMBDA io_types :
    Bind(AssembleInputs(hashed_attributes, pre.map, public_key_inputs.v,
                        show_proof.revealed_inputs), LAMBDA inputs :
       IF ShowVerifyAborts(sg, vp.vk, io_types, inputs)
       THEN Aborted("show_groth16", <<>>, ro_)
       ELSE
    Bind(ShowGroth16Verify(hs, ro_, sg, vp.vk, context, io_types, inputs),
         LAMBDA gr :
       IF ~gr.ok THEN Failed("show_groth16", log1, gr.ro)
       ELSE IF IsStale(now_seconds, show_proof.cur_time)
       THEN Failed("freshness", log2, gr.ro)
       ELSE IF Len(sg.commited_inputs) < 1 THEN Aborted("range_exp", log2, gr.ro)
       ELSE
    Bind(ShowRangeVerify(hs, gr.ro, show_proof.show_range_exp, ped_com_exp_value,
                         RANGE_PROOF_INTERVAL_BITS, vp, exp_label), LAMBDA rr :
       IF ~rr.ok THEN Failed("range_exp", log3, rr.ro)
       ELSE
    Bind(IF is_mdl THEN RangeAttrLoop(hs, rr.ro, vp, show_proof, ps, log3, 0)
         ELSE [status |-> "ok", log |-> log3, ro |-> rr.ro], LAMBDA al :
       IF al.status = "abort" THEN Aborted("range_attr", al.log, al.ro)
       ELSE IF al.status = "ret" THEN Failed("range_attr", al.log, al.ro)
       ELSE FinishVerify(hs, al.ro, vp, show_proof, ps, al.log,
                         IF is_mdl THEN "integer" ELSE "number"))))))))

\* verify_show: the io_types are allocated and the expiry and issuer key
\* positions written before the spec is resolved
verify_show(hs, ro_, vp, show_proof, proof_spec, now_seconds) ==
    LET io == vp.io_locations
        len == show_proof.inputs_len
        pk == get_public_key_indices(io)
    IN IF ~HasLocation(io, "exp_value") \/ ~IndexOk(io["exp_value"], len)
          \/ ~AllIndexOk(Vec([k \in 1..Len(pk) |-> pk[k] + 1]), len)
       THEN Aborted("io_types", <<>>, ro_)
       ELSE Bind(create_proof_spec_internal(proof_spec, vp.config_str), LAMBDA res :
            IF res.panic THEN Aborted("resolve", <<>>, ro_)
            ELSE IF ~res.ok THEN Failed("resolve", <<>>, ro_)
            ELSE VerifyCore(FALSE, hs, ro_, vp, show_proof, res.spec, now_seconds))

\* verify_show_mdl: the spec is resolved first; a range-proved attribute
\* without a location returns false
verify_show_mdl(hs, ro_, vp, show_proof, proof_spec, now_seconds) ==
    LET io == vp.io_locations
        len == show_proof.inputs_len
        pk == get_public_key_indices(io)
    IN Bind(create_proof_spec_internal(proof_spec, vp.config_str), LAMBDA res :
       IF res.panic THEN Aborted("resolve", <<>>, ro_)
       ELSE IF ~res.ok THEN Failed("resolve", <<>>, ro_)
       ELSE IF ~HasLocation(io, "valid_until_value")
               \/ ~IndexOk(io["valid_until_value"], len)
       THEN Aborted("io_types", <<>>, ro_)
       ELSE
       Bind(RevealLoop(io, RangeAttrs(res.spec), len, 1), LAMBDA rl :
       IF rl = "ret" THEN Failed("range_attrs", <<>>, ro_)
       ELSE IF rl = "abort" \/ ~AllIndexOk(Vec([k \in 1..Len(pk) |-> pk[k] + 1]), len)
       THEN Aborted("io_types", <<>>, ro_)
       ELSE VerifyCore(TRUE, hs, ro_, vp, show_proof, res.spec, now_seconds)))

\* ------------------------------------------------------------------------
\* Scenario: one DLogPoK::prove call followed by one DLogPoK::verify call
\* (dlog.rs tests test_dlog_pok_base, test_dleq / run_dleq_test)
\* ------------------------------------------------------------------------
Seeds == 0..(NumSeeds - 1)

\* contexts passed to prove, and contexts verify may be handed
ProverContexts == {NoneCtx, SomeCtx(<<1>>)}

Contexts == ProverContexts \cup {SomeCtx(<<>>)}

\* bases per statement passed to prove: two statements with two bases each, or
\* one statement
ProverBases == { <<<<2, 3>>, <<5, 7>>>>, <<<<2, 3>>>> }

\* bases verify may be handed instead (test_dlog_pok_base: G1::zero())
WrongBases == { <<<<0, 0>>, <<0, 0>>>> }

BaseMatrices == ProverBases \cup WrongBases

ScalarVals == 1..MaxScalar

ScalarMatrices(bases) ==
    { m \in [1..Len(bases) -> [1..2 -> ScalarVals]] : TRUE }

PairSet == { <<a, b>> : a \in 0..1, b \in 0..1 }

\* lists of pairwise different pairs
PairSeqs ==
    UNION { { ps \in [1..n -> PairSet] :
                \A a, b \in 1..n : a # b => ps[a] # ps[b] } : n \in 0..MaxEqPairs }

NoEqPos == [some |-> FALSE, pairs |-> <<>>]

EqPosSet == {NoEqPos} \cup { [some |-> TRUE, pairs |-> ps] : ps \in PairSeqs }

NoArgs == [context |-> NoneCtx, bases |-> <<>>, scalars |-> <<>>, y |-> <<>>,
           eq_pos |-> NoEqPos]

\* the variables of the scenarios that a specification does not run
DLogOff ==
    /\ dl_pc = "off"
    /\ dl_in = NoArgs
    /\ dl_proof = NoProof
    /\ dl_vin = NoArgs
    /\ dl_res = "none"

NoShowArgs == [context |-> NoneCtx, io_types |-> <<>>, public_inputs |-> <<>>]

NoShowResult == [groth16_valid |-> FALSE, dlog_pok_valid |-> FALSE,
                 ok |-> FALSE, com_inputs |-> 0]

GrothOff ==
    /\ g_pc = "off"
    /\ g_cs = NewClientState(<<>>, [a |-> 0, b |-> 0, c |-> 0], VerifyingKey(0))
    /\ g_ctr = 0
    /\ g_io = <<>>
    /\ g_show = NoShow
    /\ g_vin = NoShowArgs
    /\ g_res = NoShowResult

NoOpening == [bases |-> <<0, 0>>, c |-> 0, r |-> 0, m |-> 0]

NoKzgProof == [w |-> 0, random_v |-> 0]

NoRangeProof ==
    [com_f |-> 0, com_g |-> 0, com_q |-> 0, eval_g |-> 0, proof_g |-> NoKzgProof,
     eval_gw |-> 0, proof_gw |-> NoKzgProof, eval_w_hat |-> 0,
     proof_w_hat |-> NoKzgProof, dleq_proof |-> NoProof]

NoRangeResult == [batch |-> FALSE, identity |-> FALSE, ok |-> FALSE]

RangeOff ==
    /\ r_pc = "off"
    /\ r_n = 0
    /\ r_open = NoOpening
    /\ r_proof = NoRangeProof
    /\ r_com = 0
    /\ r_res = NoRangeResult

\* ------------------------------------------------------------------------
\* Scenario: a holder calls create_show_proof / create_show_proof_mdl once;
\* a ShowProof, the one returned or one changed on the way, is handed to
\* verify_show / verify_show_mdl with the verifier's ProofSpec, parameters and
\* clock
\* ------------------------------------------------------------------------
\* the device public key: the two halves of its x-coordinate
DeviceKey == <<Gen(21), Gen(22)>>

FamilyName == "Doe"

\* the age of the range_over_year entries of the holder
HolderAge == 18

\* the public inputs of the credential, by position of IOLocations
CredentialInputs(credtype, exp) ==
    IF credtype = "mdl"
    THEN <<DigestScalar([quoted |-> FALSE, text |-> FamilyName]),
           pem_to_inputs(IssuerPem).v[1], exp % P, DeviceKey[1], DeviceKey[2],
           (days_to_be_age(Today, HolderAge) + 3) % P, PackedEmail>>
    ELSE <<DigestScalar([quoted |-> TRUE, text |-> FamilyName]),
           pem_to_inputs(IssuerPem).v[1], exp % P, PackedEmail,
           DeviceKey[1], DeviceKey[2]>>

\* create_client_state: the ClientState of a credential with a valid proof
ShowClientState(credtype, exp) ==
    LET inputs == CredentialInputs(credtype, exp)
        vk == VerifyingKey(Len(inputs))
    IN [inputs |-> inputs,
        proof |-> Groth16Prove(vk, inputs, Gen(77), Gen(88)),
        vk |-> vk,
        input_com_randomness |-> [some |-> FALSE, z |-> 0],
        committed_input_openings |-> <<>>,
        aux |-> [some |-> TRUE, claims |-> ("family_name" :> FamilyName),
                 device_pub |-> DeviceKey],
        credtype |-> credtype,
        config_str |-> ConfigStr]

\* VerifierParams::new
VerifierParams(credtype, sd, issuer_pem, config_str) ==
    [vk |-> VerifyingKey(Len(CredentialInputs(credtype, 0))),
     range_vk |-> KzgSetup(sd),
     io_locations |-> IOLocations(credtype),
     issuer_pem |-> issuer_pem,
     config_str |-> config_str]

CredTypes == {"jwt", "mdl"}

\* the clock of the holder at the show
ShowTime == 1000

\* the expiry of the credential: after or before ShowTime
ExpiryTimes == {ShowTime + 10, ShowTime - 5}

\* the clock of the verifier: behind the holder's by more than the window, equal
\* to it, ahead by exactly the window, ahead by one second more
Nows(t) == {t - SHOW_PROOF_VALIDITY_SECONDS - 1, t,
            t + SHOW_PROOF_VALIDITY_SECONDS, t + SHOW_PROOF_VALIDITY_SECONDS + 1}

Message == SomeCtx(<<1>>)

OtherMessage == SomeCtx(<<2>>)

SpecNothing == ProofSpec(<<>>, NoRange, NoneCtx, NoBool)

SpecEmail == ProofSpec(<<"email">>, NoRange, Message, NoBool)

SpecFamilyName == ProofSpec(<<"family_name">>, NoRange, NoneCtx, NoBool)

SpecDevice == ProofSpec(<<"email">>, NoRange, Message, SomeBool(TRUE))

SpecAge == ProofSpec(<<>>, SomeRange(<<<<"birth_date", HolderAge>>>>), Message, SomeBool(TRUE))

\* an attribute that is not in the config
SpecGhost == ProofSpec(<<"ghost">>, NoRange, NoneCtx, NoBool)

\* an attribute of the config that has no location
SpecNickname == ProofSpec(<<"nickname">>, NoRange, NoneCtx, NoBool)

SpecDeviceNoMessage == ProofSpec(<<"email">>, NoRange, NoneCtx, SomeBool(TRUE))

SpecEmailOtherMessage == ProofSpec(<<"email">>, NoRange, OtherMessage, NoBool)

SpecDeviceOtherMessage == ProofSpec(<<"email">>, NoRange, OtherMessage, SomeBool(TRUE))

SpecOlder == ProofSpec(<<>>, SomeRange(<<<<"birth_date", HolderAge + 3>>>>), Message, SomeBool(TRUE))

\* two attributes, the first disclosed by digest
SpecBoth == ProofSpec(<<"family_name", "email">>, NoRange, NoneCtx, NoBool)

HolderSpecs ==
    {SpecNothing, SpecEmail, SpecFamilyName, SpecDevice, SpecAge, SpecGhost, SpecBoth}

VerifierSpecs ==
    HolderSpecs \cup {SpecNickname, SpecDeviceNoMessage, SpecEmailOtherMessage,
                      SpecDeviceOtherMessage, SpecOlder}

NoSignature == [some |-> FALSE, bytes |-> <<>>]

\* the key of another device
OtherKey == <<Gen(23), Gen(24)>>

\* the signatures a holder may pass: none, the device's signature of the
\* presentation message, the device's signature of another message, another
\* device's signature of the presentation message
DeviceSignatures(proof_spec) ==
    IF proof_spec.device_bound.some /\ proof_spec.device_bound.v
    THEN {NoSignature,
          [some |-> TRUE,
           bytes |-> DeviceSign(DeviceKey, proof_spec.presentation_message.bytes, 5)],
          [some |-> TRUE, bytes |-> DeviceSign(DeviceKey, OtherMessage.bytes, 5)],
          [some |-> TRUE,
           bytes |-> DeviceSign(OtherKey, proof_spec.presentation_message.bytes, 5)]}
    ELSE {NoSignature}

\* a signature of the device on another message than the verifier's
ReplayedSignature == ECDSASig(OtherMessage.bytes, DeviceSign(DeviceKey, OtherMessage.bytes, 6))

\* the DeviceProof that DeviceProof::prove returns for the same commitments
\* and the same rng and the signature sig: sig enters the proof in R, in
\* digest and in the instance of pi2, and nowhere else
WithSignature(proof, sig) ==
    [proof EXCEPT !.R = sig.r_s.R,
                  !.digest = sig.digest,
                  !.pi2 = [@ EXCEPT !.instance =
                              <<compute_TU(sig.r_s.R, sig.digest), proof.h_Q>>]]

\* bytes[0] ^= 0x01
FlipBit(bytes) == [bytes EXCEPT ![1] = IF @ % 2 = 0 THEN @ + 1 ELSE @ - 1]

\* pi2[100] ^= 0x01: bytes that do not decode, or decode to a NIZK that does
\* not verify
FlippedBlob(pi2) == [pi2 EXCEPT !.sat = FALSE]

\* ways a ShowProof may differ from the one the holder made
TamperKinds(p) ==
    {"none", "cur_time", "inputs_len"}
    \cup (IF p.device_proof.some
          THEN {"drop_device", "bad_device", "replayed_signature", "bad_pi0",
                "digest_bit", "pi2_bit"}
          ELSE {})
    \cup (IF p.revealed_preimages.some
          THEN {"drop_preimages", "garble_preimages", "remove_preimage",
                "number_preimage", "wrong_preimage"}
          ELSE {})
    \cup (IF p.revealed_inputs # <<>> THEN {"revealed_value"} ELSE {})
    \cup (IF p.show_range_attr # <<>> THEN {"drop_range_attr"} ELSE {})

Tamper(p, kind, now_seconds) ==
    CASE kind = "cur_time" -> [p EXCEPT !.cur_time = now_seconds]
      [] kind = "inputs_len" -> [p EXCEPT !.inputs_len = @ + 1]
      [] kind = "drop_device" -> [p EXCEPT !.device_proof = NoDeviceProof]
      [] kind = "bad_device" ->
            [p EXCEPT !.device_proof.proof.m = FAdd(@, 1)]
      [] kind = "bad_pi0" ->
            [p EXCEPT !.device_proof.proof.pi0.c = FAdd(@, 1)]
      [] kind = "digest_bit" ->
            [p EXCEPT !.device_proof.proof.digest = FlipBit(@)]
      [] kind = "pi2_bit" ->
            [p EXCEPT !.device_proof.proof.pi2 = FlippedBlob(@)]
      [] kind = "replayed_signature" ->
            [p EXCEPT !.device_proof.proof = WithSignature(@, ReplayedSignature)]
      [] kind = "drop_preimages" -> [p EXCEPT !.revealed_preimages = NoPreimages]
      [] kind = "garble_preimages" ->
            [p EXCEPT !.revealed_preimages = [some |-> TRUE, parses |-> FALSE, map |-> <<>>]]
      [] kind = "remove_preimage" ->
            [p EXCEPT !.revealed_preimages = SomePreimages(<<>>)]
      [] kind = "number_preimage" ->
            [p EXCEPT !.revealed_preimages =
                SomePreimages([a \in DOMAIN @.map |-> JsonNumber("7")])]
      [] kind = "wrong_preimage" ->
            [p EXCEPT !.revealed_preimages =
                SomePreimages([a \in DOMAIN @.map |->
                                  JsonString(@.map[a].s.quoted, "Roe")])]
      [] kind = "revealed_value" ->
            [p EXCEPT !.revealed_inputs[1] = FAdd(@, 1)]
      [] kind = "drop_range_attr" -> [p EXCEPT !.show_range_attr = <<>>]
      [] OTHER -> p

NoShowCall == [proof_spec |-> SpecNothing, device_signature |-> NoSignature,
               time_sec |-> 0]

NoVerifyCall == [show_proof |-> NoShowProof, proof_spec |-> SpecNothing,
                 issuer_pem |-> IssuerPem, config_str |-> ConfigStr,
                 now_seconds |-> 0, tamper |-> "none"]

NoReturn == [status |-> "none", ok |-> FALSE, out |-> EmptyString, at |-> "none",
             log |-> <<>>]

ShowOff ==
    /\ s_pc = "off"
    /\ s_cs = ShowClientState("jwt", 0)
    /\ s_ctr = 0
    /\ s_in = NoShowCall
    /\ s_proof = NoShowProof
    /\ s_vin = NoVerifyCall
    /\ s_ret = NoReturn

NoDays == [status |-> "none", today_stamp |-> 0, days |-> 0, build |-> "none",
           age |-> <<0, 0, 0, 0>>]

NoAgeShow == [status |-> "none", proofs |-> <<>>]

NoAgeVerify == [proofs |-> <<>>, age |-> 0, tamper |-> "none"]

AgeOff ==
    /\ a_pc = "off"
    /\ a_today = Today
    /\ a_age = 0
    /\ a_birth = Today
    /\ a_days = NoDays
    /\ a_show = NoAgeShow
    /\ a_vin = NoAgeVerify
    /\ a_ret = "none"

NoPopCall == [key |-> <<0, 0>>, sig |-> <<>>, h_Q |-> <<>>, m |-> 0, e1 |-> 0,
              e2 |-> 0, z |-> 0]

NoPopProof == [instance |-> <<>>, sat |-> FALSE]

NoPopVerify == [R |-> 0, digest |-> <<>>, h_Q |-> <<>>, m |-> 0, e1 |-> 0, e2 |-> 0]

PopOff ==
    /\ p_pc = "off"
    /\ p_in = NoPopCall
    /\ p_pi2 = NoPopProof
    /\ p_vin = NoPopVerify
    /\ p_res = FALSE

NoShowData == [client_state_b64 |-> <<>>, range_pk_b64 |-> <<>>,
               io_locations_str |-> <<>>, device_priv_key_path |-> ""]

NoHelperResponse == [kind |-> "none", cred_uid |-> "", ok |-> FALSE, body |-> ""]

HelperOff ==
    /\ h_tasks = <<>>
    /\ h_folders = {}
    /\ h_task = <<>>
    /\ h_del = <<>>
    /\ h_lock = 0
    /\ h_req = <<>>
    /\ h_ctr = 0
    /\ h_resp = NoHelperResponse

NoHolderProof == [n |-> 0, challenge |-> "", show_proof |-> NoShowProof]

NoVerifierResponse == [kind |-> "none", session_id |-> "", served |-> FALSE]

VerifierOff ==
    /\ v_sessions = {}
    /\ v_results = <<>>
    /\ v_accepted = <<>>
    /\ v_cs = <<>>
    /\ v_proof = NoHolderProof
    /\ v_ctr = 0
    /\ v_resp = NoVerifierResponse

DLogInit ==
    /\ seed \in Seeds
    /\ ro = <<>>
    /\ dl_pc = "idle"
    /\ dl_in = NoArgs
    /\ dl_proof = NoProof
    /\ dl_vin = NoArgs
    /\ dl_res = "none"
    /\ GrothOff
    /\ RangeOff
    /\ ShowOff
    /\ AgeOff
    /\ PopOff
    /\ HelperOff
    /\ VerifierOff

\* the caller computes y[i] = msm(bases[i], scalars[i]) and calls prove
DLogProveCall ==
    /\ dl_pc = "idle"
    /\ \E context \in ProverContexts, bases \in ProverBases, eq_pos \in EqPosSet :
        \E scalars \in ScalarMatrices(bases) :
          LET y  == Vec([i \in 1..Len(bases) |-> msm_select(bases[i], scalars[i])])
              r0 == FreshBlindings(seed, 0, bases)
              out == DLogProve(seed, ro, context, y, bases, scalars, eq_pos, r0)
          IN /\ dl_in' = [context |-> context, bases |-> bases,
                          scalars |-> scalars, y |-> y, eq_pos |-> eq_pos]
             /\ IF ProveAborts(y, bases, scalars, eq_pos)
                THEN /\ dl_pc' = "aborted"
                     /\ UNCHANGED <<ro, dl_proof>>
                ELSE /\ dl_pc' = "proved"
                     /\ dl_proof' = out.proof
                     /\ ro' = out.ro
    /\ UNCHANGED <<seed, dl_vin, dl_res, dl_others>>

\* the verifier is handed the proof and y, and the context and bases of prove
\* or, for one of the two, another value
DLogVerifyCall ==
    /\ dl_pc = "proved"
    /\ \E context \in Contexts, bases \in BaseMatrices :
          /\ context = dl_in.context \/ bases = dl_in.bases
          /\ LET out == DLogVerify(seed, ro, dl_proof, context, bases, dl_in.y,
                                dl_in.eq_pos)
             IN /\ dl_vin' = [context |-> context, bases |-> bases,
                              scalars |-> <<>>, y |-> dl_in.y,
                              eq_pos |-> dl_in.eq_pos]
                /\ IF VerifyAborts(dl_proof, bases, dl_in.y, dl_in.eq_pos)
                   THEN /\ dl_pc' = "aborted"
                        /\ UNCHANGED <<ro, dl_res>>
                   ELSE /\ dl_pc' = "verified"
                        /\ dl_res' = out.ok
                        /\ ro' = out.ro
    /\ UNCHANGED <<seed, dl_in, dl_proof, dl_others>>

\* a forger rewrites the response s[1][j] to equal s[0][i] for a listed pair
DLogForgeEq ==
    /\ dl_pc = "proved"
    /\ dl_in.eq_pos.some
    /\ \E n \in 1..Len(dl_in.eq_pos.pairs) :
          LET i == dl_in.eq_pos.pairs[n][1] + 1
              j == dl_in.eq_pos.pairs[n][2] + 1
          IN /\ dl_proof.s[2][j] # dl_proof.s[1][i]
             /\ dl_proof' = [dl_proof EXCEPT !.s[2][j] = dl_proof.s[1][i]]
    /\ UNCHANGED <<seed, ro, dl_pc, dl_in, dl_vin, dl_res, dl_others>>

DLogNext == DLogProveCall \/ DLogForgeEq \/ DLogVerifyCall

SpecDLog == DLogInit /\ [][DLogNext]_vars



\* ------------------------------------------------------------------------
\* Scenario: a holder with a cached Groth16 proof calls show_groth16 once or
\* twice, and ShowGroth16::verify is called on the last showing
\* ------------------------------------------------------------------------
InputVectors == { Vec([i \in 1..NumInputs |-> i + 1]), Vec([i \in 1..NumInputs |-> 2 * i + 3]) }

IoTypeVectors == [1..NumInputs -> PublicIOType]

\* the cached proof: one that verifies for the inputs, or one that does not
CachedProofs(vk, x) ==
    LET good == Groth16Prove(vk, x, Gen(77), Gen(88))
    IN {good, [good EXCEPT !.c = FAdd(good.c, 1)]}

\* the values of the Revealed inputs, in position order
RevealedValues(inputs, io_types) ==
    LET ri == Positions(io_types, Revealed)
    IN Vec([k \in 1..Len(ri) |-> inputs[ri[k]]])

GrothContext == SomeCtx(<<1>>)

GrothInit ==
    /\ seed \in Seeds
    /\ ro = <<>>
    /\ g_pc = "ready"
    /\ \E x \in InputVectors :
          \E proof \in CachedProofs(VerifyingKey(NumInputs), x) :
              g_cs = NewClientState(x, proof, VerifyingKey(NumInputs))
    /\ g_ctr = 0
    /\ g_io = <<>>
    /\ g_show = NoShow
    /\ g_vin = NoShowArgs
    /\ g_res = NoShowResult
    /\ DLogOff
    /\ RangeOff
    /\ ShowOff
    /\ AgeOff
    /\ PopOff
    /\ HelperOff
    /\ VerifierOff

\* show_groth16 that pushes the new openings onto the stored ones
MutKeepOpenings(stored, openings) == stored \o openings

\* show_groth16, line 154: self.committed_input_openings = committed_input_openings.clone()
StoreOpenings(stored, openings) == openings

\* the effect of one show_groth16 call on the scenario
GrothShowStep(io_types) ==
    LET out == show_groth16(seed, ro, seed, g_ctr, g_cs, GrothContext, io_types)
    IN /\ g_cs' = [g_cs EXCEPT !.committed_input_openings =
                                   StoreOpenings(g_cs.committed_input_openings, out.openings),
                               !.input_com_randomness = [some |-> TRUE, z |-> out.z]]
       /\ g_show' = out.show
       /\ g_io' = io_types
       /\ g_ctr' = out.ctr
       /\ ro' = out.ro

GrothShow ==
    /\ g_pc = "ready"
    /\ \E io_types \in IoTypeVectors : GrothShowStep(io_types)
    /\ g_pc' = "shown"
    /\ UNCHANGED <<seed, g_vin, g_res, g_others>>

\* io_types that differ from io_types in one position at most
NearIoTypes(io_types) ==
    { v \in IoTypeVectors :
        Cardinality({ i \in 1..NumInputs : v[i] # io_types[i] }) <= 1 }

\* a second presentation from the same ClientState
GrothShowAgain ==
    /\ g_pc = "shown"
    /\ \E io_types \in NearIoTypes(g_io) : GrothShowStep(io_types)
    /\ g_pc' = "reshown"
    /\ UNCHANGED <<seed, g_vin, g_res, g_others>>

\* io_types that differ from the holder's in the first position at most
VerifierIoTypes(io_types) ==
    { v \in IoTypeVectors : \A i \in 2..NumInputs : v[i] = io_types[i] }

\* public inputs handed to verify: the revealed values, or changed ones
VerifierPublicInputs(inputs, io_types) ==
    LET honest == RevealedValues(inputs, io_types)
    IN {honest, Vec([k \in 1..Len(honest) |-> FAdd(honest[k], 1)])}

GrothVerify ==
    /\ g_pc \in {"shown", "reshown"}
    /\ \E io_types \in VerifierIoTypes(g_io) :
        \E public_inputs \in VerifierPublicInputs(g_cs.inputs, g_io) :
          /\ io_types = g_io \/ public_inputs = RevealedValues(g_cs.inputs, g_io)
          /\ g_vin' = [context |-> GrothContext, io_types |-> io_types,
                       public_inputs |-> public_inputs]
          /\ IF ShowVerifyAborts(g_show, g_cs.vk, io_types, public_inputs)
             THEN /\ g_pc' = "aborted"
                  /\ UNCHANGED <<ro, g_res>>
             ELSE LET out == ShowGroth16Verify(seed, ro, g_show, g_cs.vk,
                                              GrothContext, io_types, public_inputs)
                  IN /\ g_pc' = "verified"
                     /\ g_res' = [groth16_valid |-> out.groth16_valid,
                                  dlog_pok_valid |-> out.dlog_pok_valid,
                                  ok |-> out.ok, com_inputs |-> out.com_inputs]
                     /\ ro' = out.ro
    /\ UNCHANGED <<seed, g_cs, g_ctr, g_io, g_show, g_others>>

GrothNext == GrothShow \/ GrothShowAgain \/ GrothVerify

SpecGroth == GrothInit /\ [][GrothNext]_vars

\* ------------------------------------------------------------------------
\* Scenario: prove_n_bits over a Pedersen opening of a value in 0..2^n, then
\* verify_n_bits against the commitment of the opening or against another one
\* ------------------------------------------------------------------------
BitLengths == { 2^k : k \in 1..MaxLogBits }

RangeBases == <<BasisL(1), VerifyingKey(1).delta_g1>>

RangeInit ==
    /\ seed \in Seeds
    /\ ro = <<>>
    /\ r_pc = "ready"
    /\ r_n \in BitLengths
    /\ \E m \in 0..(2^r_n), r \in ScalarVals :
          r_open = PedersenOpen(RangeBases, m, Rand(seed, r))
    /\ r_proof = NoRangeProof
    /\ r_com = 0
    /\ r_res = NoRangeResult
    /\ DLogOff
    /\ GrothOff
    /\ ShowOff
    /\ AgeOff
    /\ PopOff
    /\ HelperOff
    /\ VerifierOff

RangeProveCall ==
    /\ r_pc = "ready"
    /\ LET out == prove_n_bits(seed, ro, seed, 0, r_open, r_n, KzgSetup(seed))
       IN /\ r_proof' = out.proof
          /\ ro' = out.ro
    /\ r_pc' = "proved"
    /\ UNCHANGED <<seed, r_n, r_open, r_com, r_res, r_others>>

\* ped_com is the commitment of the opening, or a commitment to m + 1
RangeVerifyCall ==
    /\ r_pc = "proved"
    /\ \E ped_com \in {r_open.c, FAdd(r_open.c, r_open.bases[1])} :
          LET out == verify_n_bits(seed, ro, r_proof, ped_com, r_open.bases, r_n,
                                   KzgSetup(seed))
          IN /\ r_com' = ped_com
             /\ r_res' = [batch |-> out.batch, identity |-> out.identity,
                          ok |-> out.ok]
             /\ ro' = out.ro
    /\ r_pc' = "verified"
    /\ UNCHANGED <<seed, r_n, r_open, r_proof, r_others>>

RangeNext == RangeProveCall \/ RangeVerifyCall

SpecRange == RangeInit /\ [][RangeNext]_vars

\* ------------------------------------------------------------------------
\* Scenario: one create_show_proof call followed by one verify_show call
\* ------------------------------------------------------------------------
ShowInit ==
    /\ seed \in Seeds
    /\ ro = <<>>
    /\ s_pc = "ready"
    /\ \E credtype \in CredTypes, exp \in ExpiryTimes :
          s_cs = ShowClientState(credtype, exp)
    /\ s_ctr = 0
    /\ s_in = NoShowCall
    /\ s_proof = NoShowProof
    /\ s_vin = NoVerifyCall
    /\ s_ret = NoReturn
    /\ DLogOff
    /\ GrothOff
    /\ RangeOff
    /\ AgeOff
    /\ PopOff
    /\ HelperOff
    /\ VerifierOff

\* the holder calls create_show_proof (create_show_proof_mdl for an mDL)
ShowCall ==
    /\ s_pc = "ready"
    /\ \E proof_spec \in HolderSpecs :
        \E device_signature \in DeviceSignatures(proof_spec) :
          \E out \in { IF s_cs.credtype = "mdl"
                       THEN create_show_proof_mdl(seed, ro, seed, s_ctr, s_cs,
                                KzgSetup(seed), proof_spec,
                                IOLocations(s_cs.credtype), device_signature, ShowTime)
                       ELSE create_show_proof(seed, ro, seed, s_ctr, s_cs,
                                KzgSetup(seed), IOLocations(s_cs.credtype),
                                proof_spec, device_signature, ShowTime) } :
             /\ s_in' = [proof_spec |-> proof_spec,
                         device_signature |-> device_signature,
                         time_sec |-> ShowTime]
             /\ s_pc' = CASE out.status = "ok" -> "shown"
                          [] out.status = "err" -> "error"
                          [] OTHER -> "aborted"
             /\ s_proof' = out.proof
             /\ s_cs' = [s_cs EXCEPT !.committed_input_openings = out.openings]
             /\ s_ctr' = out.ctr
             /\ ro' = out.ro
    /\ UNCHANGED <<seed, s_vin, s_ret, s_others>>

\* what the verifier may be handed: the holder's proof with every clock, the
\* holder's proof with another ProofSpec, config or issuer key, or a changed
\* proof with a clock inside or outside the window
VerifyInputs ==
    { [show_proof |-> s_proof, proof_spec |-> s_in.proof_spec,
       issuer_pem |-> IssuerPem, config_str |-> s_cs.config_str,
       now_seconds |-> now, tamper |-> "none"] : now \in Nows(s_in.time_sec) }
    \cup
    { [show_proof |-> s_proof, proof_spec |-> ps,
       issuer_pem |-> IssuerPem, config_str |-> s_cs.config_str,
       now_seconds |-> s_in.time_sec, tamper |-> "none"] : ps \in VerifierSpecs }
    \cup
    { [show_proof |-> s_proof, proof_spec |-> s_in.proof_spec,
       issuer_pem |-> pem, config_str |-> cfg,
       now_seconds |-> s_in.time_sec, tamper |-> "none"] :
         pem \in {IssuerPem, "garbage"},
         cfg \in {ConfigStr, ConfigStrSpaced, ConfigStrNoAlg, ConfigStrTextDigest} }
    \cup
    { [show_proof |-> Tamper(s_proof, kind, now), proof_spec |-> s_in.proof_spec,
       issuer_pem |-> IssuerPem, config_str |-> s_cs.config_str,
       now_seconds |-> now, tamper |-> kind] :
         kind \in TamperKinds(s_proof),
         now \in {s_in.time_sec, s_in.time_sec + SHOW_PROOF_VALIDITY_SECONDS + 1} }

\* the verifier calls verify_show (verify_show_mdl for an mDL)
VerifyCall ==
    /\ s_pc = "shown"
    /\ \E vin \in VerifyInputs :
        \E vp \in { VerifierParams(s_cs.credtype, seed, vin.issuer_pem,
                                   vin.config_str) } :
          \E out \in { IF s_cs.credtype = "mdl"
                       THEN verify_show_mdl(seed, ro, vp, vin.show_proof,
                                            vin.proof_spec, vin.now_seconds)
                       ELSE verify_show(seed, ro, vp, vin.show_proof,
                                        vin.proof_spec, vin.now_seconds) } :
             /\ s_vin' = vin
             /\ s_ret' = [status |-> out.status, ok |-> out.ok, out |-> out.out,
                          at |-> out.at, log |-> out.log]
             /\ ro' = out.ro
    /\ s_pc' = "verified"
    /\ UNCHANGED <<seed, s_cs, s_ctr, s_in, s_proof, s_others>>

ShowNext == ShowCall \/ VerifyCall

SpecShow == ShowInit /\ [][ShowNext]_vars

\* ------------------------------------------------------------------------
\* Scenario: io-locations tables and ProofSpecs.  The credential comes from a
\* circuit whose public inputs are laid out by one of several io-locations
\* tables; the holder calls create_show_proof / create_show_proof_mdl with a
\* ProofSpec and the device's signature of its message, and the verifier calls
\* verify_show / verify_show_mdl with the ShowProof it returned, the same
\* ProofSpec and table, at the holder's time.
\* ------------------------------------------------------------------------
\* IOLocations with the names at the locations a and b exchanged
SwapLocations(io, a, b) ==
    [n \in DOMAIN io |-> IF io[n] = a THEN b ELSE IF io[n] = b THEN a ELSE io[n]]

\* the label of the expiry and of the issuer key in the table of a credential
ExpLabel(credtype) == IF credtype = "mdl" THEN "valid_until_value" ELSE "exp_value"

KeyLabel(credtype) == IF credtype = "mdl" THEN "pubkey_hash" ELSE "modulus_0"

\* the tables of the scenario: the one of IOLocations; the digest after the
\* issuer key; a revealed value before the issuer key; a device key before
\* the expiry; for an mDL also the two revealed values exchanged and the
\* range-proved attribute before the expiry
Layouts(credtype) ==
    LET io == IOLocations(credtype)
    IN {io,
        SwapLocations(io, io["family_name_digest"], io[KeyLabel(credtype)]),
        SwapLocations(io, io["email_value"], io[KeyLabel(credtype)]),
        SwapLocations(io, io["device_key_0_value"], io[ExpLabel(credtype)])}
       \cup (IF credtype = "mdl"
             THEN {SwapLocations(io, io["birth_date_value"], io["email_value"]),
                   SwapLocations(io, io["birth_date_value"], io[ExpLabel(credtype)])}
             ELSE {})

\* the name at a location of a table
NameAt(io, i) == CHOOSE n \in DOMAIN io : io[n] = i

\* the public inputs of the credential, by position of the table io
LayoutInputs(credtype, io, exp) ==
    Vec([i \in 1..Len(CredentialInputs(credtype, exp)) |->
            CredentialInputs(credtype, exp)[IOLocations(credtype)[NameAt(io, i)]]])

\* create_client_state for the circuit with the table io
LayoutClientState(credtype, io, exp) ==
    Bind(ShowClientState(credtype, exp), LAMBDA cs :
    Bind(LayoutInputs(credtype, io, exp), LAMBDA inputs :
        [cs EXCEPT !.inputs = inputs,
                   !.proof = Groth16Prove(cs.vk, inputs, Gen(77), Gen(88))]))

\* ProofSpecs: two attributes in the other order
SpecBothReversed == ProofSpec(<<"email", "family_name">>, NoRange, NoneCtx, NoBool)

SpecBirthEmail == ProofSpec(<<"birth_date", "email">>, NoRange, NoneCtx, NoBool)

SpecEmailBirth == ProofSpec(<<"email", "birth_date">>, NoRange, NoneCtx, NoBool)

\* a range predicate without device binding
SpecAgeNoDevice ==
    ProofSpec(<<>>, SomeRange(<<<<"birth_date", HolderAge>>>>), NoneCtx, NoBool)

LayoutSpecs ==
    {SpecNothing, SpecEmail, SpecFamilyName, SpecBoth, SpecBothReversed,
     SpecBirthEmail, SpecEmailBirth, SpecDevice, SpecAge, SpecAgeNoDevice}

\* the device's signature of the presentation message, if the spec is device
\* bound
LayoutSignature(proof_spec) ==
    IF proof_spec.device_bound.some /\ proof_spec.device_bound.v
    THEN [some |-> TRUE,
          bytes |-> DeviceSign(DeviceKey, proof_spec.presentation_message.bytes, 5)]
    ELSE NoSignature

LayoutShowCall(io) ==
    [proof_spec |-> SpecNothing, device_signature |-> NoSignature, time_sec |-> 0,
     io_locations |-> io]

LayoutInit ==
    /\ seed \in Seeds
    /\ ro = <<>>
    /\ s_pc = "ready"
    /\ \E credtype \in CredTypes :
          \E io \in Layouts(credtype) :
             /\ s_cs = LayoutClientState(credtype, io, ShowTime + 10)
             /\ s_in = LayoutShowCall(io)
    /\ s_ctr = 0
    /\ s_proof = NoShowProof
    /\ s_vin = NoVerifyCall
    /\ s_ret = NoReturn
    /\ DLogOff
    /\ GrothOff
    /\ RangeOff
    /\ AgeOff
    /\ PopOff
    /\ HelperOff
    /\ VerifierOff

\* the holder calls create_show_proof (create_show_proof_mdl for an mDL) with
\* the table of the circuit
LayoutShow ==
    /\ s_pc = "ready"
    /\ \E proof_spec \in LayoutSpecs :
        \E device_signature \in { LayoutSignature(proof_spec) } :
          \E out \in { IF s_cs.credtype = "mdl"
                       THEN create_show_proof_mdl(seed, ro, seed, s_ctr, s_cs,
                                KzgSetup(seed), proof_spec,
                                s_in.io_locations, device_signature, ShowTime)
                       ELSE create_show_proof(seed, ro, seed, s_ctr, s_cs,
                                KzgSetup(seed), s_in.io_locations,
                                proof_spec, device_signature, ShowTime) } :
             /\ s_in' = [s_in EXCEPT !.proof_spec = proof_spec,
                                     !.device_signature = device_signature,
                                     !.time_sec = ShowTime]
             /\ s_pc' = CASE out.status = "ok" -> "shown"
                          [] out.status = "err" -> "error"
                          [] OTHER -> "aborted"
             /\ s_proof' = out.proof
             /\ s_cs' = [s_cs EXCEPT !.committed_input_openings = out.openings]
             /\ s_ctr' = out.ctr
             /\ ro' = out.ro
    /\ UNCHANGED <<seed, s_vin, s_ret, s_others>>

\* the verifier calls verify_show (verify_show_mdl for an mDL) with the
\* holder's ShowProof and ProofSpec and the same table
LayoutVerify ==
    /\ s_pc = "shown"
    /\ \E vin \in { [show_proof |-> s_proof, proof_spec |-> s_in.proof_spec,
                      issuer_pem |-> IssuerPem, config_str |-> s_cs.config_str,
                      now_seconds |-> s_in.time_sec, tamper |-> "none"] } :
        \E vp \in { [VerifierParams(s_cs.credtype, seed, vin.issuer_pem,
                                    vin.config_str)
                         EXCEPT !.io_locations = s_in.io_locations] } :
          \E out \in { IF s_cs.credtype = "mdl"
                       THEN verify_show_mdl(seed, ro, vp, vin.show_proof,
                                            vin.proof_spec, vin.now_seconds)
                       ELSE verify_show(seed, ro, vp, vin.show_proof,
                                        vin.proof_spec, vin.now_seconds) } :
             /\ s_vin' = vin
             /\ s_ret' = [status |-> out.status, ok |-> out.ok, out |-> out.out,
                          at |-> out.at, log |-> out.log]
             /\ ro' = out.ro
    /\ s_pc' = "verified"
    /\ UNCHANGED <<seed, s_cs, s_ctr, s_in, s_proof, s_others>>

LayoutNext == LayoutShow \/ LayoutVerify

SpecLayout == LayoutInit /\ [][LayoutNext]_vars

\* ------------------------------------------------------------------------
\* Scenario: days_to_be_age is called for a date and an age; the holder of an
\* mDL makes the range proof of birth_date for range_over_year =
\* {birth_date: age} (create_show_proof_mdl, lines 501-514) and the verifier
\* runs its loop over the range proofs (verify_show_mdl, lines 863-892).
\* Dates and day counts keep their size: an element of the scalar field is
\* written as the integer of least absolute value in its class, a negative
\* integer -k standing for r - k.  The range proof is the ideal one: it
\* exists for the openings show_range does not reject, and it verifies for the
\* commitment it was made for and for no other.
\* ------------------------------------------------------------------------
\* ages range over 0..MaxAge
MaxAge == 130

\* the number of bits of the range proofs of the program
RANGE_PROOF_BITS == 32

Todays == {<<2026, 11, 6>>, <<2024, 2, 29>>, <<2100, 3, 1>>, <<2001, 1, 1>>,
           <<100, 6, 15>>}

\* the day k years before a date, 29 February moved to 28 February
YearsBefore(date, k) == <<date[1] - k, date[2], PastDay(date)>>

BirthYearsAgo == {10, 17, 19, 40}

\* the number of days before 1 January of a year in the proleptic Gregorian
\* calendar: 365 for every year before it and one more for every leap year
GregorianDaysBeforeYear(year) ==
    365 * (year - 1) + Cardinality({ y \in 1..(year - 1) : is_leap(y) })

\* the day-stamp of a date, which is the value of the public input
\* birth_date_value of an mDL: the ordinal of the date in the proleptic
\* Gregorian calendar, 1 January of year 1 being day 1
DayStamp(date) ==
    GregorianDaysBeforeYear(date[1]) + days_before_month(date[1], date[2]) + date[3]

\* ages for which the year of the reference date wraps: one for which the
\* wrapped day-stamp of the reference date is below the stamp of Today, and
\* the largest usize
HugeAges == {<<38718, 53956, 37902, 65356>>, <<65535, 65535, 65535, 65535>>}

\* ped_open.m < bound for bound = 2^n, on the integer that stands for m
BelowBound(m, n) == m >= 0 /\ m \div 2^(n \div 2) < 2^(n - n \div 2)

\* the loop of create_show_proof_mdl for one attribute: com_attr.m -=
\* days_in_age, then show_range, which panics unless n < 64 and m < 2^n.  The
\* proof names the message of the commitment it was made for.
HolderAgeProof(value, today, age) ==
    Bind(DaysToBeAge(today, age), LAMBDA d :
       IF d.status = "abort" THEN [status |-> "abort", proofs |-> <<>>]
       ELSE IF RANGE_PROOF_BITS >= 64 \/ ~BelowBound(value - d.days, RANGE_PROOF_BITS)
       THEN [status |-> "abort", proofs |-> <<>>]
       ELSE [status |-> "ok", proofs |-> <<[m |-> value - d.days, age |-> age]>>])

\* verify_show_mdl for the spec {birth_date: age}: the DLogPoK of the show
\* verifies for the context of the holder's spec only; then the loop over
\* show_proof.show_range_attr shifts the commitment of birth_date by
\* days_to_be_age(age) and verifies the range proof against it
VerifierAgeLoop(proofs, holder_age, value, today, age) ==
    IF holder_age # age THEN "false"
    ELSE IF proofs = <<>> THEN "accept"
    ELSE Bind(DaysToBeAge(today, age), LAMBDA d :
       IF d.status = "abort" THEN "abort"
       ELSE IF proofs[1].m # value - d.days THEN "false"
       ELSE "accept")

AgeInit ==
    /\ seed \in Seeds
    /\ ro = <<>>
    /\ a_pc = "ready"
    /\ a_today \in Todays
    /\ a_age \in 0..MaxAge
    /\ a_birth \in { YearsBefore(a_today, k) : k \in BirthYearsAgo }
    /\ a_days = NoDays
    /\ a_show = NoAgeShow
    /\ a_vin = NoAgeVerify
    /\ a_ret = "none"
    /\ DLogOff
    /\ GrothOff
    /\ RangeOff
    /\ ShowOff
    /\ PopOff
    /\ HelperOff
    /\ VerifierOff

\* days_to_be_age is called on the day a_today, in one of the builds, for
\* a_age or for a huge age
DaysCall ==
    /\ a_pc = "ready"
    /\ \E build \in Builds, age \in {U64(a_age)} \cup HugeAges :
        \E out \in { DaysToBeAgeOf(build, a_today, age) } :
          /\ a_days' = [status |-> out.status, today_stamp |-> out.today_stamp,
                        days |-> out.days, build |-> build, age |-> age]
          /\ a_pc' = IF out.status = "ok" THEN "computed" ELSE "aborted"
    /\ UNCHANGED <<seed, ro, a_today, a_age, a_birth, a_show, a_vin, a_ret, a_others>>

\* the holder makes the range proof of birth_date
AgeShow ==
    /\ a_pc = "ready"
    /\ \E out \in { HolderAgeProof(DayStamp(a_birth), a_today, a_age) } :
          /\ a_show' = out
          /\ a_pc' = IF out.status = "ok" THEN "shown" ELSE "show_aborted"
    /\ UNCHANGED <<seed, ro, a_today, a_age, a_birth, a_days, a_vin, a_ret, a_others>>

\* the verifier is handed the holder's range proofs, or none of them, with a
\* spec of the holder's age or of another one
AgeVerify ==
    /\ a_pc = "shown"
    /\ \E age \in {a_age, a_age + 1}, tamper \in {"none", "drop_range_attr"} :
          \E proofs \in { IF tamper = "none" THEN a_show.proofs ELSE <<>> } :
             /\ a_vin' = [proofs |-> proofs, age |-> age, tamper |-> tamper]
             /\ a_ret' = VerifierAgeLoop(proofs, a_age, DayStamp(a_birth),
                                         a_today, age)
    /\ a_pc' = "verified"
    /\ UNCHANGED <<seed, ro, a_today, a_age, a_birth, a_days, a_show, a_others>>

AgeNext == DaysCall \/ AgeShow \/ AgeVerify

SpecAgeProof == AgeInit /\ [][AgeNext]_vars

\* ------------------------------------------------------------------------
\* Scenario: one ECDSAProof::prove call for a signature of the device key,
\* followed by one ECDSAProof::verify call whose arguments are the prover's
\* or differ from them in any subset of R, digest, hQ, m, e1, e2
\* ------------------------------------------------------------------------
PopScalars == 0..MaxScalar

PopDigest == <<"digest of the challenge">>

PopOtherDigest == <<"digest of another challenge">>

\* the value x or the next one of the field
Near(x) == {x, FAdd(x, 1)}

\* the m of the device proof: q0 + q1 * e1 + z * e2
PopM(key, e1, e2, z) == FAdd(FAdd(key[1], FMul(key[2], e1)), FMul(z, e2))

PopCalls ==
    {[key |-> DeviceKey,
      sig |-> ECDSASig(PopDigest, DeviceSign(DeviceKey, PopDigest, 5)),
      h_Q |-> compute_hQ(DeviceKey[1], DeviceKey[2], z),
      m |-> m, e1 |-> e1, e2 |-> e2, z |-> z] :
        <<z, e1, e2, m>> \in {t \in PopScalars \X PopScalars \X PopScalars \X (0..(P - 1)) :
                                 t[4] \in Near(PopM(DeviceKey, t[2], t[3], t[1]))}}

PopInit ==
    /\ seed = 0
    /\ ro = <<>>
    /\ p_pc = "ready"
    /\ p_in \in PopCalls
    /\ p_pi2 = NoPopProof
    /\ p_vin = NoPopVerify
    /\ p_res = FALSE
    /\ DLogOff
    /\ GrothOff
    /\ RangeOff
    /\ ShowOff
    /\ AgeOff
    /\ HelperOff
    /\ VerifierOff

\* ECDSAProof::prove(params, qx, qy, r, s, digest, hQ, m, e1, e2, z, false)
PopProve ==
    /\ p_pc = "ready"
    /\ SignatureVerifies(p_in.sig, p_in.key)
    /\ p_pi2' = ECDSAProve(p_in.key, p_in.sig, p_in.h_Q, p_in.m, p_in.e1, p_in.e2, p_in.z)
    /\ p_pc' = "proved"
    /\ UNCHANGED <<seed, ro, p_in, p_vin, p_res, p_others>>

\* ECDSAProof::verify(params, Rx, Ry, digest, hQ, m, e1, e2, proof)
PopVerify ==
    /\ p_pc = "proved"
    /\ \E R \in {p_in.sig.r_s.R, 6}, digest \in {p_in.sig.digest, PopOtherDigest},
          h_Q \in {p_in.h_Q, compute_hQ(p_in.key[1], p_in.key[2], FAdd(p_in.z, 1))},
          m \in Near(p_in.m), e1 \in Near(p_in.e1), e2 \in Near(p_in.e2) :
          /\ p_vin' = [R |-> R, digest |-> digest, h_Q |-> h_Q, m |-> m, e1 |-> e1, e2 |-> e2]
          /\ p_res' = ECDSAVerify(R, digest, h_Q, m, e1, e2, p_pi2)
    /\ p_pc' = "verified"
    /\ UNCHANGED <<seed, ro, p_in, p_pi2, p_others>>

PopNext == PopProve \/ PopVerify

SpecPop == PopInit /\ [][PopNext]_vars

\* ------------------------------------------------------------------------
\* Scenario: the client helper service (sample/client_helper/src/main.rs).
\* Clients post JWT credentials to /prepare, each spawning a background task,
\* and call /status, /getshowdata, /show and /delete for the cred_uids they
\* were given, in any interleaving of the handlers and the tasks.
\* ------------------------------------------------------------------------
\* compute_cred_uid: the UUIDs that Uuid::new_v4() returns, in this order
CredUids == <<"uid-1">>

Uids == {CredUids[i] : i \in DOMAIN CredUids}

\* the cred_uids of requests: the ones /prepare returned and one it never did
RequestUids == Uids \cup {"no-such-uid"}

\* the /show requests in flight
ShowRequests == {1, 2}

\* common.rs SCHEMA_UIDS, the JWT schema of it
SupportedSchemas == {"jwt_corporate_1"}

\* utils.rs write_to_b64url: base64url of the uncompressed serialization
write_to_b64url(obj) == <<"b64url", obj>>

\* utils.rs read_from_b64url
read_from_b64url(str) ==
    IF Len(str) = 2 /\ str[1] = "b64url"
    THEN [ok |-> TRUE, v |-> str[2]]
    ELSE [ok |-> FALSE, v |-> <<>>]

\* Sha256::digest(challenge)
Sha256Digest(challenge) == <<"sha256", challenge>>

\* the ShowData the background task builds for a credential, lines 188-224
TaskShowData(sd, cred_uid) ==
    [client_state_b64 |-> write_to_b64url(ShowClientState("jwt", ShowTime + 10)),
     range_pk_b64 |-> write_to_b64url(KzgSetup(sd)),
     io_locations_str |-> IOLocations("jwt"),
     device_priv_key_path |-> cred_uid]

\* Option<ShowData>
NoneShowData == [some |-> FALSE, show_data |-> NoShowData]

SomeShowData(show_data) == [some |-> TRUE, show_data |-> show_data]

\* HashMap::insert
MapInsert(tasks, key, value) == (key :> value) @@ tasks

\* HashMap::remove
MapRemove(tasks, key) == [k \in (DOMAIN tasks) \ {key} |-> tasks[k]]

\* /status, lines 250-254
StatusOf(tasks, cred_uid) ==
    IF cred_uid \notin DOMAIN tasks THEN "unknown"
    ELSE IF tasks[cred_uid].some THEN "ready"
    ELSE "preparing"

\* a handler that ignores the mutex
MutLockIgnored(lock) == TRUE

\* state.inner().0.lock().await resolves when no guard is alive
LockFree(lock) == lock = 0

\* the proof_spec parameters of /show: base64url of the JSON of a ProofSpec
\* revealing the email, of a device-bound one, and a string that is no
\* base64url
ShowSpecParams == {"email", "device", "garbage"}

NoShowRequest ==
    [pc |-> "idle", cred_uid |-> "", proof_spec |-> "", client_state |-> <<>>,
     outcome |-> "none", show_proof |-> <<>>, deleted_before |-> FALSE]

TaskEnded(pc) == pc \in {"stored", "failed", "panicked"}

\* a /delete request has completed: after the task ended, or while it ran
DeleteCompleted(pc) == pc \in {"deleted", "deleted_early"}

HelperInit ==
    /\ seed \in Seeds
    /\ ro = <<>>
    /\ h_tasks = <<>>
    /\ h_folders = {}
    /\ h_task = [u \in Uids |-> "none"]
    /\ h_del = [u \in Uids |-> "idle"]
    /\ h_lock = 0
    /\ h_req = [r \in ShowRequests |-> NoShowRequest]
    /\ h_ctr = 0
    /\ h_resp = NoHelperResponse
    /\ DLogOff
    /\ GrothOff
    /\ RangeOff
    /\ ShowOff
    /\ AgeOff
    /\ PopOff
    /\ VerifierOff

\* the cred_uid of the next /prepare
NextUid == CredUids[Cardinality({u \in Uids : h_task[u] # "none"}) + 1]

\* POST /prepare: rejects an unsupported schema; else creates the credential
\* folder, registers the cred_uid as preparing and spawns the background task
HelperPrepare ==
    /\ \E schema_uid \in SupportedSchemas \cup {"unsupported"} :
          IF schema_uid \notin SupportedSchemas
          THEN /\ h_resp' = [kind |-> "prepare", cred_uid |-> "error", ok |-> FALSE,
                             body |-> "error"]
               /\ h_resp' # h_resp
               /\ UNCHANGED <<h_tasks, h_folders, h_task>>
          ELSE /\ \E u \in Uids : h_task[u] = "none"
               /\ LockFree(h_lock)
               /\ h_folders' = h_folders \cup {NextUid}
               /\ h_tasks' = MapInsert(h_tasks, NextUid, NoneShowData)
               /\ h_task' = [h_task EXCEPT ![NextUid] = "running"]
               /\ h_resp' = [kind |-> "prepare", cred_uid |-> NextUid, ok |-> TRUE,
                             body |-> NextUid]
    /\ UNCHANGED <<seed, ro, h_del, h_lock, h_req, h_ctr, h_others>>

\* the body of the background task, lines 178-226: it ends with the ShowData,
\* with an Err (the issuer's JWK cannot be fetched, a file of the credential
\* folder cannot be read, the token does not verify) or in a panic
\* (create_client_state unwraps the circuit's witness and asserts the proof)
HelperTaskRun ==
    \E u \in Uids :
       /\ h_task[u] = "running"
       /\ \E outcome \in (IF u \in h_folders THEN {"computed"} ELSE {})
                             \cup {"failing", "panicked"} :
             h_task' = [h_task EXCEPT ![u] = outcome]
       /\ UNCHANGED <<seed, ro, h_tasks, h_folders, h_del, h_lock, h_req, h_ctr,
                      h_resp, h_others>>

\* lines 229-230: the task stores the ShowData
HelperTaskStore ==
    \E u \in Uids :
       /\ h_task[u] = "computed"
       /\ LockFree(h_lock)
       /\ h_tasks' = MapInsert(h_tasks, u, SomeShowData(TaskShowData(seed, u)))
       /\ h_task' = [h_task EXCEPT ![u] = "stored"]
       /\ UNCHANGED <<seed, ro, h_folders, h_del, h_lock, h_req, h_ctr, h_resp,
                      h_others>>

\* lines 236-240: the task removes the entry after an Err
HelperTaskRemove ==
    \E u \in Uids :
       /\ h_task[u] = "failing"
       /\ LockFree(h_lock)
       /\ h_tasks' = MapRemove(h_tasks, u)
       /\ h_task' = [h_task EXCEPT ![u] = "failed"]
       /\ UNCHANGED <<seed, ro, h_folders, h_del, h_lock, h_req, h_ctr, h_resp,
                      h_others>>

\* GET /status
HelperStatus ==
    \E u \in RequestUids :
       /\ LockFree(h_lock)
       /\ h_resp' = [kind |-> "status", cred_uid |-> u, ok |-> TRUE,
                     body |-> StatusOf(h_tasks, u)]
       /\ h_resp' # h_resp
       /\ UNCHANGED <<seed, ro, h_tasks, h_folders, h_task, h_del, h_lock, h_req,
                      h_ctr, h_others>>

\* GET /getshowdata
HelperGetShowData ==
    \E u \in RequestUids :
       /\ LockFree(h_lock)
       /\ h_resp' = IF u \in DOMAIN h_tasks /\ h_tasks[u].some
                    THEN [kind |-> "getshowdata", cred_uid |-> u, ok |-> TRUE,
                          body |-> "ShowData"]
                    ELSE [kind |-> "getshowdata", cred_uid |-> u, ok |-> FALSE,
                          body |-> "Err"]
       /\ h_resp' # h_resp
       /\ UNCHANGED <<seed, ro, h_tasks, h_folders, h_task, h_del, h_lock, h_req,
                      h_ctr, h_others>>

\* GET /show, lines 274-291: takes the lock, looks the cred_uid up and
\* deserializes its own ClientState from the stored ShowData
HelperShowBegin ==
    \E r \in ShowRequests, u \in RequestUids, param \in ShowSpecParams :
       /\ h_req[r].pc = "idle"
       /\ LockFree(h_lock)
       /\ IF u \in DOMAIN h_tasks /\ h_tasks[u].some
             /\ read_from_b64url(h_tasks[u].show_data.client_state_b64).ok
          THEN /\ h_req' = [h_req EXCEPT ![r] =
                     [pc |-> "locked", cred_uid |-> u, proof_spec |-> param,
                      client_state |->
                          read_from_b64url(h_tasks[u].show_data.client_state_b64).v,
                      outcome |-> "none", show_proof |-> <<>>,
                      deleted_before |-> u \in Uids /\ DeleteCompleted(h_del[u])]]
               /\ h_lock' = r
               /\ UNCHANGED h_resp
          ELSE /\ h_req' = [h_req EXCEPT ![r] =
                     [NoShowRequest EXCEPT !.pc = "done", !.cred_uid = u,
                                           !.proof_spec = param, !.outcome = "err"]]
               /\ h_resp' = [kind |-> "show", cred_uid |-> u, ok |-> FALSE,
                             body |-> "Err"]
               /\ UNCHANGED h_lock
       /\ UNCHANGED <<seed, ro, h_tasks, h_folders, h_task, h_del, h_ctr, h_others>>

\* the ProofSpec of a /show request, lines 294-300
HelperProofSpec(param, challenge) ==
    ProofSpec(<<"email">>, NoRange, SomeCtx(Sha256Digest(challenge)),
              IF param = "device" THEN SomeBool(TRUE) ELSE NoBool)

\* lines 303-311: the signature of the device whose key is in the folder
HelperDeviceSignature(proof_spec) ==
    IF proof_spec.device_bound.some /\ proof_spec.device_bound.v
    THEN [some |-> TRUE,
          bytes |-> DeviceSign(DeviceKey, proof_spec.presentation_message.bytes, 5)]
    ELSE NoSignature

\* the request panics before create_show_proof: the proof_spec parameter is
\* no base64url (line 294), or the device key file is gone (line 307)
ShowPanicsEarly(req) ==
    \/ req.proof_spec = "garbage"
    \/ req.proof_spec = "device" /\ req.cred_uid \notin h_folders

\* GET /show, lines 293-322: create_show_proof on the request's ClientState.
\* An Err or a panic drops the guard.
HelperShowProve ==
    \E r \in ShowRequests :
       /\ h_req[r].pc = "locked"
       /\ IF ShowPanicsEarly(h_req[r])
          THEN /\ h_req' = [h_req EXCEPT ![r].pc = "done", ![r].outcome = "abort",
                                         ![r].client_state = <<>>]
               /\ h_lock' = 0
               /\ h_resp' = [kind |-> "show", cred_uid |-> h_req[r].cred_uid,
                             ok |-> FALSE, body |-> "panic"]
               /\ UNCHANGED <<ro, h_ctr>>
          ELSE \E proof_spec \in {HelperProofSpec(h_req[r].proof_spec, "challenge")} :
               \E out \in { create_show_proof(seed, ro, seed, h_ctr,
                               h_req[r].client_state,
                               read_from_b64url(
                                   h_tasks[h_req[r].cred_uid].show_data.range_pk_b64).v,
                               h_tasks[h_req[r].cred_uid].show_data.io_locations_str,
                               proof_spec, HelperDeviceSignature(proof_spec),
                               ShowTime) } :
                  /\ ro' = out.ro
                  /\ h_ctr' = out.ctr
                  /\ IF out.status = "ok"
                     THEN /\ h_req' = [h_req EXCEPT
                                ![r].pc = "proved",
                                ![r].client_state.committed_input_openings = out.openings,
                                ![r].show_proof = out.proof]
                          /\ UNCHANGED <<h_lock, h_resp>>
                     ELSE /\ h_req' = [h_req EXCEPT
                                ![r].pc = "done", ![r].client_state = <<>>,
                                ![r].outcome = IF out.status = "err" THEN "err"
                                               ELSE "abort"]
                          /\ h_lock' = 0
                          /\ h_resp' = [kind |-> "show",
                                        cred_uid |-> h_req[r].cred_uid, ok |-> FALSE,
                                        body |-> out.status]
       /\ UNCHANGED <<seed, h_tasks, h_folders, h_task, h_del, h_others>>

\* GET /show, lines 325-327: the proof is returned and the guard dropped
HelperShowReturn ==
    \E r \in ShowRequests :
       /\ h_req[r].pc = "proved"
       /\ h_req' = [h_req EXCEPT ![r].pc = "done", ![r].outcome = "ok",
                                 ![r].client_state = <<>>]
       /\ h_lock' = 0
       /\ h_resp' = [kind |-> "show", cred_uid |-> h_req[r].cred_uid, ok |-> TRUE,
                     body |-> "show_proof_b64"]
       /\ UNCHANGED <<seed, ro, h_tasks, h_folders, h_task, h_del, h_ctr, h_others>>

\* GET /delete, lines 346-363: the credential folder is removed
HelperDeleteFolder ==
    \E u \in Uids :
       /\ h_task[u] # "none"
       /\ h_del[u] = "idle"
       /\ h_folders' = h_folders \ {u}
       /\ h_del' = [h_del EXCEPT ![u] = IF u \in h_folders THEN "removed" ELSE "missing"]
       /\ UNCHANGED <<seed, ro, h_tasks, h_task, h_lock, h_req, h_ctr, h_resp,
                      h_others>>

\* GET /delete, lines 366-374: the entry is removed and the request completes
HelperDeleteEntry ==
    \E u \in Uids :
       /\ h_del[u] \in {"removed", "missing"}
       /\ LockFree(h_lock)
       /\ h_tasks' = MapRemove(h_tasks, u)
       /\ h_del' = [h_del EXCEPT ![u] = IF TaskEnded(h_task[u]) THEN "deleted"
                                        ELSE "deleted_early"]
       /\ h_resp' = [kind |-> "delete", cred_uid |-> u, ok |-> h_del[u] = "removed",
                     body |-> IF h_del[u] = "removed" THEN "Deleted"
                              ELSE "Failed to delete folder"]
       /\ UNCHANGED <<seed, ro, h_folders, h_task, h_lock, h_req, h_ctr, h_others>>

HelperNext ==
    \/ HelperPrepare
    \/ HelperTaskRun
    \/ HelperTaskStore
    \/ HelperTaskRemove
    \/ HelperStatus
    \/ HelperGetShowData
    \/ HelperShowBegin
    \/ HelperShowProve
    \/ HelperShowReturn
    \/ HelperDeleteFolder
    \/ HelperDeleteEntry

SpecHelper == HelperInit /\ [][HelperNext]_vars

\* ------------------------------------------------------------------------
\* Scenario: the sample verifier (sample/verifier/src/main.rs).  Browsers load
\* /login and /signup1, which issue session ids; a holder of a JWT credential
\* makes ShowProofs for challenges of its choice; clients post proofs to
\* /verify with any session id and load /resource and /signup2.
\* ------------------------------------------------------------------------
\* base_context: the UUIDs that Uuid::new_v4() returns, in this order
SessionIds == <<"sid-1", "sid-2", "sid-3">>

SessionPool == {SessionIds[i] : i \in DOMAIN SessionIds}

\* the session ids of requests: issued ones, the literal "test", and one that
\* base_context never returned
RequestSessions(sessions) == sessions \cup {"test", "no-such-session"}

\* Rocket.toml site1_proof_spec, site2_proof_spec
Site1ProofSpec == ProofSpec(<<"email">>, NoRange, NoneCtx, NoBool)

Site2ProofSpec == ProofSpec(<<>>, NoRange, NoneCtx, NoBool)

\* common.rs is_disc_supported_by_schema
is_disc_supported_by_schema(disc, schema) ==
    \/ schema = "jwt_corporate_1" /\ disc = "crescent://email_domain"
    \/ schema = "mdl_1" /\ disc \in {"crescent://over_18", "crescent://over_21",
                                     "crescent://over_65"}

\* common.rs cred_type_from_schema
cred_type_from_schema(schema_uid) == IF schema_uid = "mdl_1" THEN "mdl" ELSE "jwt"

\* common.rs disc_uid_to_age
disc_uid_to_age(disc_uid) ==
    CASE disc_uid = "crescent://over_18" -> 18
      [] disc_uid = "crescent://over_21" -> 21
      [] OTHER -> 65

\* a /verify that accepts every session id
MutSessionNotChecked(sessions, session_id) == TRUE

\* verify, line 299: active_session_ids.lock().unwrap().contains(&session_id)
SessionIssued(sessions, session_id) == session_id \in sessions

\* verify, lines 359-370: the ProofSpec of the site with the digest of the
\* challenge as presentation message, and the age of the disclosure for an mDL
VerifierProofSpec(cred_type, disclosure_uid, challenge) ==
    IF cred_type = "mdl"
    THEN [Site2ProofSpec EXCEPT
             !.presentation_message = SomeCtx(Sha256Digest(challenge)),
             !.range_over_year =
                 SomeRange(<<<<"birth_date", disc_uid_to_age(disclosure_uid)>>>>)]
    ELSE [Site1ProofSpec EXCEPT
             !.presentation_message = SomeCtx(Sha256Digest(challenge))]

\* the requests posted to /verify
ProofInfos ==
    [session_id : RequestSessions(v_sessions),
     schema_uid : {"jwt_corporate_1", "mdl_1", "unsupported"},
     disclosure_uid : {"crescent://email_domain", "crescent://over_18"},
     proof : (IF v_proof.n > 0 THEN {write_to_b64url(v_proof.show_proof)} ELSE {})
                 \cup {<<"garbage">>},
     now_seconds : {ShowTime, ShowTime + SHOW_PROOF_VALIDITY_SECONDS + 1}]

VerifierInit ==
    /\ seed \in Seeds
    /\ ro = <<>>
    /\ v_sessions = {}
    /\ v_results = <<>>
    /\ v_accepted = <<>>
    /\ v_cs = ShowClientState("jwt", ShowTime + 10)
    /\ v_proof = NoHolderProof
    /\ v_ctr = 0
    /\ v_resp = NoVerifierResponse
    /\ DLogOff
    /\ GrothOff
    /\ RangeOff
    /\ ShowOff
    /\ AgeOff
    /\ PopOff
    /\ HelperOff

SessionsLeft == Cardinality(v_sessions) < Len(SessionIds)

\* the session id of the next base_context call
NextSession == SessionIds[Cardinality(v_sessions) + 1]

\* base_context, lines 87-88
base_context(sessions) == sessions \cup {NextSession}

\* GET /login and GET /signup1
VerifierLoginPage ==
    /\ SessionsLeft
    /\ v_sessions' = base_context(v_sessions)
    /\ v_resp' = [kind |-> "login", session_id |-> NextSession, served |-> FALSE]
    /\ UNCHANGED <<seed, ro, v_results, v_accepted, v_cs, v_proof, v_ctr, v_others>>

\* the holder makes one ShowProof of the site's ProofSpec for a challenge
VerifierHolderShow ==
    /\ v_proof.n = 0
    /\ \E challenge \in RequestSessions(v_sessions) :
        \E out \in { create_show_proof(seed, ro, seed, v_ctr, v_cs, KzgSetup(seed),
                        IOLocations("jwt"),
                        VerifierProofSpec("jwt", "crescent://email_domain", challenge),
                        NoSignature, ShowTime) } :
           /\ out.status = "ok"
           /\ v_proof' = [n |-> v_proof.n + 1, challenge |-> challenge,
                          show_proof |-> out.proof]
           /\ v_cs' = [v_cs EXCEPT !.committed_input_openings = out.openings]
           /\ v_ctr' = out.ctr
           /\ ro' = out.ro
    /\ UNCHANGED <<seed, v_sessions, v_results, v_accepted, v_resp, v_others>>

\* error_template!: the login page with a new session id
ErrorTemplate ==
    /\ SessionsLeft
    /\ v_sessions' = base_context(v_sessions)
    /\ v_resp' = [kind |-> "error", session_id |-> NextSession, served |-> FALSE]
    /\ UNCHANGED <<ro, v_results, v_accepted>>

\* POST /verify
VerifierVerify ==
    /\ \E proof_info \in ProofInfos :
        \E cred_type \in {cred_type_from_schema(proof_info.schema_uid)} :
          IF \/ ~SessionIssued(v_sessions, proof_info.session_id)
             \/ proof_info.schema_uid \notin {"jwt_corporate_1", "mdl_1"}
             \/ ~is_disc_supported_by_schema(proof_info.disclosure_uid,
                                             proof_info.schema_uid)
             \/ ~read_from_b64url(proof_info.proof).ok
          THEN ErrorTemplate
          ELSE \E out \in { verify_show(seed, ro,
                               VerifierParams(cred_type, seed, IssuerPem, ConfigStr),
                               read_from_b64url(proof_info.proof).v,
                               VerifierProofSpec(cred_type, proof_info.disclosure_uid,
                                                 proof_info.session_id),
                               proof_info.now_seconds) } :
                 CASE out.status = "abort" ->
                        /\ v_resp' = [kind |-> "panic",
                                      session_id |-> proof_info.session_id,
                                      served |-> FALSE]
                        /\ v_resp' # v_resp
                        /\ UNCHANGED <<ro, v_sessions, v_results, v_accepted>>
                   [] out.status = "ret" /\ out.ok ->
                        /\ v_results' = MapInsert(v_results, proof_info.session_id,
                                                  [disclosed_info |-> out.out])
                        /\ v_accepted' = MapInsert(v_accepted, proof_info.session_id,
                               [show_proof |-> read_from_b64url(proof_info.proof).v,
                                now_seconds |-> proof_info.now_seconds,
                                challenge |-> v_proof.challenge])
                        /\ v_resp' = [kind |-> "redirect",
                                      session_id |-> proof_info.session_id,
                                      served |-> FALSE]
                        /\ ro' = out.ro
                        /\ UNCHANGED v_sessions
                   [] OTHER ->
                        /\ SessionsLeft
                        /\ v_sessions' = base_context(v_sessions)
                        /\ v_resp' = [kind |-> "error", session_id |-> NextSession,
                                      served |-> FALSE]
                        /\ ro' = out.ro
                        /\ UNCHANGED <<v_results, v_accepted>>
    /\ UNCHANGED <<seed, v_cs, v_proof, v_ctr, v_others>>

\* resource_page and signup2_page, lines 151-176, 196-226: the page is served
\* for the literal "test" and for a session id with a validation result
PageServed(results, session_id) == session_id = "test" \/ session_id \in DOMAIN results

\* GET /resource
VerifierResourcePage ==
    /\ \E session_id \in RequestSessions(SessionPool) :
          v_resp' = [kind |-> "resource", session_id |-> session_id,
                     served |-> PageServed(v_results, session_id)]
    /\ v_resp' # v_resp
    /\ UNCHANGED <<seed, ro, v_sessions, v_results, v_accepted, v_cs, v_proof, v_ctr,
                   v_others>>

\* GET /signup2
VerifierSignup2Page ==
    /\ \E session_id \in RequestSessions(SessionPool) :
          v_resp' = [kind |-> "signup2", session_id |-> session_id,
                     served |-> PageServed(v_results, session_id)]
    /\ v_resp' # v_resp
    /\ UNCHANGED <<seed, ro, v_sessions, v_results, v_accepted, v_cs, v_proof, v_ctr,
                   v_others>>

VerifierNext ==
    \/ VerifierLoginPage
    \/ VerifierHolderShow
    \/ VerifierVerify
    \/ VerifierResourcePage
    \/ VerifierSignup2Page

SpecVerifier == VerifierInit /\ [][VerifierNext]_vars

\* ------------------------------------------------------------------------
\* Properties of DLogPoK (SpecDLog)
\* ------------------------------------------------------------------------
HonestProof ==
    dl_proof = DLogProve(seed, <<>>, dl_in.context, dl_in.y, dl_in.bases,
                         dl_in.scalars, dl_in.eq_pos,
                         FreshBlindings(seed, 0, dl_in.bases)).proof

\* every pair listed in eq_pos names equal prover scalars
EqPosScalarsEqual ==
    \A n \in 1..Len(dl_in.eq_pos.pairs) :
        dl_in.scalars[1][dl_in.eq_pos.pairs[n][1] + 1]
            = dl_in.scalars[2][dl_in.eq_pos.pairs[n][2] + 1]

\* no two pairs of eq_pos with different first positions share a second position
EqPosSecondDistinct ==
    \A m, n \in 1..Len(dl_in.eq_pos.pairs) :
        dl_in.eq_pos.pairs[m][2] = dl_in.eq_pos.pairs[n][2]
            => dl_in.eq_pos.pairs[m][1] = dl_in.eq_pos.pairs[n][1]

C7_HonestProofVerifies ==
    (dl_pc = "verified" /\ HonestProof
        /\ dl_vin.context = dl_in.context /\ dl_vin.bases = dl_in.bases
        /\ EqPosScalarsEqual)
    => dl_res = TRUE

\* C8: with an eq_pos pair whose prover scalars differ, verify rejects the
\* proof made by prove; and whatever proof verify accepts under eq_pos has
\* equal responses s[0][a] = s[1][b] for every listed pair.
C8_EqPosEnforced ==
    /\ (dl_pc = "verified" /\ HonestProof /\ dl_in.eq_pos.some
            /\ ~EqPosScalarsEqual)
        => dl_res = FALSE
    /\ (dl_pc = "verified" /\ dl_res = TRUE /\ dl_in.eq_pos.some)
        => \A n \in 1..Len(dl_in.eq_pos.pairs) :
              dl_proof.s[1][dl_in.eq_pos.pairs[n][1] + 1]
                  = dl_proof.s[2][dl_in.eq_pos.pairs[n][2] + 1]

C8_Witness ==
    /\ dl_pc = "verified" /\ HonestProof /\ dl_res = FALSE
    /\ dl_in.eq_pos.some /\ ~EqPosScalarsEqual
    /\ dl_vin.context = dl_in.context /\ dl_vin.bases = dl_in.bases

\* the honest proof does verify when no two pairs of eq_pos with different
\* first positions share a second position
C7_RestrictedHolds ==
    (dl_pc = "verified" /\ HonestProof
        /\ dl_vin.context = dl_in.context /\ dl_vin.bases = dl_in.bases
        /\ EqPosScalarsEqual /\ EqPosSecondDistinct)
    => dl_res = TRUE


\* ------------------------------------------------------------------------
\* Properties of show_groth16 (SpecGroth)
\* ------------------------------------------------------------------------
\* the cached Groth16 proof verifies for the holder's inputs
CachedProofValid ==
    verify_proof_with_prepared_inputs(g_cs.vk, g_cs.proof,
                                      PreparedInputs(g_cs.vk, g_cs.inputs))

\* verify was called with the holder's io_types and the revealed inputs
HonestShowVerified ==
    /\ g_pc = "verified"
    /\ g_vin.io_types = g_io
    /\ g_vin.public_inputs = RevealedValues(g_cs.inputs, g_io)

\* C9: if the cached Groth16 proof verifies for the holder's inputs, then for
\* every io_types the ShowGroth16 made by show_groth16 passes the Groth16
\* prepared-input check of verify against the verifier's aggregated com_inputs.
C9_HonestShowPassesGroth16 ==
    (HonestShowVerified /\ CachedProofValid) => g_res.groth16_valid

C9_Witness ==
    /\ HonestShowVerified
    /\ CachedProofValid
    /\ g_io = <<Revealed, Hidden, Committed>>
    /\ g_res.groth16_valid
    /\ g_res.com_inputs # PreparedInputs(g_cs.vk, g_cs.inputs)


\* ------------------------------------------------------------------------
\* Properties of the range proof (SpecRange)
\* ------------------------------------------------------------------------
\* verify_n_bits was called with the commitment and the bases of the opening
HonestRangeVerified == r_pc = "verified" /\ r_com = r_open.c

ShowVerified == s_pc = "verified"

\* now_seconds - cur_time of the call, as an integer
ProofAge == s_vin.now_seconds - s_vin.show_proof.cur_time

\* the verifier was handed the ShowProof the holder made, with the holder's
\* ProofSpec, the issuer's key and the holder's config
StoredProofResubmitted ==
    /\ ShowVerified
    /\ s_vin.show_proof = s_proof
    /\ s_vin.proof_spec = s_in.proof_spec
    /\ s_vin.issuer_pem = IssuerPem
    /\ s_vin.config_str = s_cs.config_str

\* the call returned true
Accepted == s_ret.status = "ret" /\ s_ret.ok

\* the call returned (false, "")
ReturnedFalseEmpty == s_ret.status = "ret" /\ ~s_ret.ok /\ s_ret.out = EmptyString

\* the call returned (false, "") at the freshness check
RejectedAsStale == ReturnedFalseEmpty /\ s_ret.at = "freshness"

\* the call got as far as the freshness check
FreshnessChecked == \E k \in 1..Len(s_ret.log) : s_ret.log[k] = "freshness"

\* the checks of the proof that are cryptographic
CryptoChecks == {"groth16", "dlog_pok", "range_exp", "range_attr", "device"}

\* the proof the holder made is accepted when it is handed over unchanged at
\* the holder's own time
StoredProofValid ==
    (StoredProofResubmitted /\ ProofAge = 0) => Accepted

C1_WitnessBoundary ==
    /\ StoredProofResubmitted
    /\ ProofAge = 300
    /\ Accepted

\* C2 (as stated): a stored ShowProof resubmitted more than 300 seconds after
\* cur_time is rejected at the freshness check before any cryptographic check
\* (Groth16, DLogPoK, range proof, device proof) is executed.
C2_StaleRejectedBeforeAnyCrypto ==
    (StoredProofResubmitted /\ ProofAge > 300) =>
        /\ RejectedAsStale
        /\ \A k \in 1..Len(s_ret.log) : s_ret.log[k] \notin CryptoChecks

\* C2 (amended): a stored ShowProof resubmitted more than 300 seconds after
\* cur_time is rejected at the freshness check, after the Groth16 check and the
\* DLogPoK check of show_groth16.verify have been executed and before any range
\* proof or device proof is.
C2_StaleRejectedBeforeRangeAndDevice ==
    (StoredProofResubmitted /\ ProofAge > 300) =>
        /\ RejectedAsStale
        /\ s_ret.log = <<"groth16", "dlog_pok", "freshness">>

C2_Witness ==
    /\ StoredProofResubmitted
    /\ s_cs.credtype = "jwt"
    /\ s_in.proof_spec = SpecDevice
    /\ ProofAge > 300
    /\ s_ret.at = "freshness"
    /\ s_ret.log = <<"groth16", "dlog_pok", "freshness">>

\* C3 (as stated): a ShowProof whose cur_time lies outside the freshness window
\* is rejected, a cur_time later than the verifier's current time included.
C3_OutsideWindowRejected ==
    (ShowVerified /\ (ProofAge > 300 \/ ProofAge < 0)) => ~Accepted

\* C3 (amended): a ShowProof whose cur_time is more than 300 seconds before the
\* verifier's current time is rejected as stale; a cur_time later than the
\* verifier's current time counts as an age of 0, passes the freshness check,
\* and the holder's proof is accepted with it.
C3_OnlyOlderRejectedAsStale ==
    ShowVerified =>
        /\ ProofAge > 300 => ~Accepted
        /\ FreshnessChecked => (RejectedAsStale <=> ProofAge > 300)
        /\ (StoredProofResubmitted /\ ProofAge < 0) => Accepted

C3_Witness ==
    /\ StoredProofResubmitted
    /\ ProofAge < 0
    /\ FreshnessChecked
    /\ Accepted

\* C4 (as stated): every call of verify_show / verify_show_mdl that does not
\* return true returns exactly (false, ""): it returns, and the string is empty.
C4_FailuresReturnFalseEmpty ==
    (ShowVerified /\ ~Accepted) => ReturnedFalseEmpty

\* a failing call returns a non-empty string
C4_WitnessMessage ==
    /\ ShowVerified
    /\ s_ret.status = "ret" /\ ~s_ret.ok
    /\ s_ret.out = DeviceProofMissing

\* a failing call panics
C4_WitnessAbort ==
    /\ ShowVerified
    /\ s_vin.tamper = "drop_preimages"
    /\ s_ret.status = "abort"
    /\ s_ret.at = "preimages"

\* a failing call that returns a non-empty string has a device-bound ProofSpec
\* and a ShowProof without device proof
FailuresWithMessage ==
    (ShowVerified /\ s_ret.status = "ret" /\ ~s_ret.ok /\ s_ret.out # EmptyString)
    => /\ s_ret.at = "device_missing"
       /\ ~s_vin.show_proof.device_proof.some

\* the ProofSpec the holder resolved, as serialized for the DLogPoK context
HolderContext ==
    Serialize(create_proof_spec_internal(s_in.proof_spec, s_cs.config_str).spec)

\* the verifier's ProofSpec resolves
VerifierResolves ==
    create_proof_spec_internal(s_vin.proof_spec, s_vin.config_str).ok

\* the ProofSpec the verifier resolved, as serialized for the DLogPoK context
VerifierContext ==
    Serialize(create_proof_spec_internal(s_vin.proof_spec, s_vin.config_str).spec)

\* the verifier was handed the holder's ShowProof and resolved a ProofSpec that
\* differs from the holder's
DifferentSpec ==
    /\ ShowVerified
    /\ s_vin.show_proof = s_proof
    /\ s_vin.issuer_pem = IssuerPem
    /\ VerifierResolves
    /\ VerifierContext # HolderContext

\* C5 (as stated): verify_show returns false whenever the verifier's resolved
\* ProofSpec differs from the one the holder used in create_show_proof and
\* every other component of the ShowProof is honest.
C5_DifferentSpecReturnsFalse ==
    (DifferentSpec /\ s_cs.credtype = "jwt") => (s_ret.status = "ret" /\ ~s_ret.ok)

\* verify_show panics on the holder's ShowProof under a different ProofSpec
C5_WitnessAbort ==
    /\ DifferentSpec
    /\ s_cs.credtype = "jwt"
    /\ s_in.proof_spec = SpecEmail
    /\ s_vin.proof_spec = SpecDevice
    /\ s_ret.status = "abort"
    /\ s_ret.at = "show_groth16"

\* the holder's ShowProof is never accepted under a different ProofSpec
DifferentSpecNeverAccepted == DifferentSpec => ~Accepted

\* the holder's ShowProof is rejected by show_groth16.verify under a different
\* ProofSpec
DifferentSpecRejected ==
    /\ DifferentSpec
    /\ s_ret.status = "ret" /\ ~s_ret.ok
    /\ s_ret.at = "show_groth16"


\* ------------------------------------------------------------------------
\* Expiry (SpecShow)
\* ------------------------------------------------------------------------
\* the expiry of the holder's credential, the public input at the location of
\* exp_value (valid_until_value for an mDL)
CredentialExpiry ==
    s_cs.inputs[IOLocations(s_cs.credtype)[IF s_cs.credtype = "mdl"
                                           THEN "valid_until_value" ELSE "exp_value"]]

ShowCalled == s_pc \in {"shown", "error", "aborted", "verified"}

FlowEnded == s_pc \in {"error", "aborted", "verified"}

\* the holder showed an expired credential for a spec that resolves and names
\* known attributes
ExpiredShow ==
    /\ ShowCalled
    /\ CredentialExpiry < s_in.time_sec
    /\ s_in.proof_spec \in {SpecNothing, SpecEmail, SpecFamilyName}

\* C11 (as stated): when the credential expired before cur_time, the show then
\* verify flow ends with the verifier returning (false, "") at the range proof
\* of the expiry
C11_ExpiredRejectedByVerifier ==
    (ExpiredShow /\ FlowEnded) =>
        s_pc = "verified" /\ ReturnedFalseEmpty /\ s_ret.at = "range_exp"

\* the show of an expired credential panics in show_range, and no ShowProof
\* exists afterwards
ExpiredShowAborts ==
    ExpiredShow => s_pc = "aborted" /\ s_proof = NoShowProof

C11_WitnessAbort == ExpiredShow /\ s_in.proof_spec = SpecEmail /\ s_pc = "aborted"

\* a ShowProof whose cur_time was moved past the expiry after the show
PostdatedPastExpiry ==
    /\ ShowVerified /\ s_vin.tamper = "cur_time"
    /\ s_vin.show_proof.cur_time > CredentialExpiry
    /\ s_vin.proof_spec = s_in.proof_spec

\* such a proof is returned false with "" at the range proof of the expiry
PostdatedRejected ==
    PostdatedPastExpiry => ReturnedFalseEmpty /\ s_ret.at = "range_exp"

PostdatedWitness == PostdatedPastExpiry /\ s_ret.at = "range_exp"

\* no presentation is accepted with a cur_time after the expiry
ExpiredNeverAccepted ==
    (ShowVerified /\ s_vin.show_proof.cur_time > CredentialExpiry) => ~Accepted


\* ------------------------------------------------------------------------
\* The age predicate of an mDL (SpecAgeProof)
\* ------------------------------------------------------------------------
AgeVerified == a_pc = "verified"

BornYearsAgo(k) == a_birth = YearsBefore(a_today, k)

\* C12 (as stated): with range_over_year = {birth_date: 18} and birth_date
\* encoded as a day-stamp, the presentation of a holder born 19 years before
\* today is accepted, and no presentation of a holder born 10 years before
\* today is accepted
C12_AgePredicateEnforced ==
    (AgeVerified /\ a_age = 18 /\ a_vin.age = 18) =>
        /\ (BornYearsAgo(19) /\ a_vin.tamper = "none") => a_ret = "accept"
        /\ BornYearsAgo(10) => a_ret # "accept"

\* the holder born 19 years before today is accepted
OfAgeAccepted ==
    (AgeVerified /\ a_age = 18 /\ a_vin.age = 18 /\ BornYearsAgo(19)
     /\ a_vin.tamper = "none") => a_ret = "accept"

OfAgeWitness ==
    AgeVerified /\ a_age = 18 /\ a_vin.age = 18 /\ BornYearsAgo(19)
    /\ a_vin.tamper = "none" /\ a_ret = "accept"

\* the holder born 10 years before today is accepted with the range proof
\* the library makes
C12_WitnessUnderAge ==
    AgeVerified /\ a_age = 18 /\ a_vin.age = 18 /\ BornYearsAgo(10)
    /\ a_today = Today /\ a_vin.tamper = "none" /\ a_ret = "accept"

\* a presentation without a range proof is accepted
C12_WitnessDropped ==
    AgeVerified /\ a_age = 18 /\ a_vin.age = 18 /\ a_vin.tamper = "drop_range_attr"
    /\ a_ret = "accept"

\* verify_show_mdl accepts the ShowProof of a spec with range_over_year from
\* which the range proofs of the attributes were removed (SpecShow)
RangeProofsDroppedAccepted ==
    ShowVerified /\ s_vin.tamper = "drop_range_attr"
    /\ s_vin.proof_spec = SpecAge /\ Accepted


\* ------------------------------------------------------------------------
\* daystamp.rs (SpecAgeProof)
\* ------------------------------------------------------------------------
DaysCalled == a_pc \in {"computed", "aborted"}

\* days_to_be_age(a_age) was called
AgeCalled == DaysCalled /\ a_days.age = U64(a_age)

\* 1 <= a and a + 1 < current year
PlausibleAge == 1 <= a_age /\ a_age + 1 < a_today[1]

\* C17: for a fixed date and every age a with 1 <= a and a + 1 < current
\* year, days_to_be_age(a) and days_to_be_age(a + 1) return and
\* days_to_be_age(a + 1) > days_to_be_age(a)
C17_DaysToBeAgeIncreasing ==
    (AgeCalled /\ PlausibleAge) =>
        /\ a_days.status = "ok"
        /\ DaysToBeAgeOf(a_days.build, a_today, U64(a_age + 1)).status = "ok"
        /\ DaysToBeAgeOf(a_days.build, a_today, U64(a_age + 1)).days > a_days.days

\* the two reference dates lie on the two sides of 1 January 2001
C17_Witness ==
    /\ a_pc = "computed" /\ AgeCalled /\ PlausibleAge
    /\ a_today = Today /\ a_age = 25 /\ a_days.build = "release"
    /\ DaysToBeAgeOf("release", a_today, U64(26)).days > a_days.days

\* the leap years before a year, counted and in closed form
GregorianClosedForm ==
    DaysCalled =>
        GregorianDaysBeforeYear(a_today[1]) =
            365 * (a_today[1] - 1) + ((a_today[1] - 1) \div 4)
                - ((a_today[1] - 1) \div 100) + ((a_today[1] - 1) \div 400)

\* C18 (as stated): ymd_to_ordinal(Y, M, D) is the ordinal of the date in the
\* proleptic Gregorian calendar, and days_before_year(Y) =
\* 365(Y-1) + floor((Y-1)/4) - floor((Y-1)/100) + floor((Y-1)/400)
C18_OrdinalIsGregorian ==
    DaysCalled =>
        /\ a_days.today_stamp = DayStamp(a_today)
        /\ days_before_year(a_today[1]) =
              365 * (a_today[1] - 1) + ((a_today[1] - 1) \div 4)
                  - ((a_today[1] - 1) \div 100) + ((a_today[1] - 1) \div 400)

\* ymd_to_ordinal is the Gregorian ordinal plus two days for every full
\* century before the year
OrdinalOffByCenturies ==
    DaysCalled =>
        a_days.today_stamp = DayStamp(a_today) + 2 * ((a_today[1] - 1) \div 100)

C18_WitnessOff ==
    DaysCalled /\ a_today = Today /\ a_days.today_stamp = DayStamp(a_today) + 40

\* days_to_be_age differs from the number of days between the two dates when
\* a century begins between them
C18_WitnessDaysOff ==
    /\ a_pc = "computed" /\ AgeCalled /\ a_today = Today /\ a_age = 26
    /\ a_days.days = DayStamp(a_today) - DayStamp(YearsBefore(a_today, a_age)) + 2

\* the age of the call is below the year, so that the reference date
\* exists, and today is after the reference date
TodayAfterReference ==
    /\ U64Small(a_days.age)
    /\ a_today[1] - U64ToNat(a_days.age) >= 1
    /\ DayStamp(a_today) > DayStamp(YearsBefore(a_today, U64ToNat(a_days.age)))

\* C19 (as stated): days_to_be_age never returns zero or a wrapped value;
\* whenever ordinal(today) > ordinal(the reference date A years ago) does not
\* hold, the call aborts
C19_NeverZeroOrWrapped ==
    DaysCalled =>
        /\ ~TodayAfterReference => a_pc = "aborted"
        /\ a_pc = "computed" => a_days.days > 0

\* the claim holds in a build with overflow checks, and in every build for
\* the ages up to MaxAge
NeverZeroOrWrappedChecked ==
    (DaysCalled /\ (a_days.build = "debug" \/ a_days.age = U64(a_age))) =>
        /\ ~TodayAfterReference => a_pc = "aborted"
        /\ a_pc = "computed" =>
              /\ a_days.days > 0
              /\ a_days.days = a_days.today_stamp
                     - ymd_to_ordinal(a_today[1] - U64ToNat(a_days.age), a_today[2],
                                      PastDay(a_today))

\* zero is never returned
NeverZero == a_pc = "computed" => a_days.days > 0

\* the two builds agree for the ages up to MaxAge
BuildsAgree ==
    AgeCalled =>
        /\ DaysToBeAgeOf("debug", a_today, a_days.age).status = a_days.status
        /\ DaysToBeAgeOf("release", a_today, a_days.age).days = a_days.days

\* without overflow checks a wrapped value is returned for a huge age
C19_WitnessWrapped ==
    /\ a_pc = "computed" /\ a_days.build = "release"
    /\ a_days.age = <<38718, 53956, 37902, 65356>>
    /\ a_today = Today /\ a_days.days = 369844

C19_WitnessAgeZero == a_pc = "aborted" /\ AgeCalled /\ a_age = 0 /\ a_today = Today

\* age 0 on 29 February: the reference date is 28 February and one day is
\* returned
C19_WitnessLeapDay ==
    a_pc = "computed" /\ AgeCalled /\ a_age = 0 /\ a_today = <<2024, 2, 29>>
    /\ a_days.days = 1

\* an age that is not below the year aborts in both builds
C19_WitnessBeforeYearOne ==
    a_pc = "aborted" /\ AgeCalled /\ a_age >= a_today[1] /\ a_days.build = "release"


\* ------------------------------------------------------------------------
\* Device binding (SpecShow)
\* ------------------------------------------------------------------------
DeviceBoundVerified ==
    /\ ShowVerified
    /\ s_vin.proof_spec.device_bound = SomeBool(TRUE)
    /\ s_vin.proof_spec.presentation_message.some

\* C13 (as stated): with a device-bound spec the verifier returns true only
\* if the digest that the ECDSA statement of the DeviceProof is verified
\* against is the verifier's presentation_message; a DeviceProof made from a
\* signature over another message is rejected
C13_DigestIsPresentationMessage ==
    (DeviceBoundVerified /\ Accepted) =>
        /\ s_vin.show_proof.device_proof.some
        /\ s_vin.show_proof.device_proof.proof.digest
               = s_vin.proof_spec.presentation_message.bytes

\* a ShowProof whose DeviceProof was made from the device's signature on
\* another message is accepted
C13_WitnessReplay ==
    /\ DeviceBoundVerified /\ Accepted
    /\ s_vin.tamper = "replayed_signature"
    /\ s_vin.show_proof.device_proof.proof.digest = OtherMessage.bytes
    /\ s_vin.proof_spec.presentation_message = Message

\* the verifier accepts no ShowProof without a DeviceProof, and none whose
\* holder was given another presentation_message
DeviceProofRequired ==
    (DeviceBoundVerified /\ Accepted) =>
        /\ s_vin.show_proof.device_proof.some
        /\ s_in.proof_spec.presentation_message = s_vin.proof_spec.presentation_message

\* create_show_proof makes no DeviceProof from a signature on another message
\* than the presentation_message of its spec
HolderDigestIsMessage ==
    (s_pc \in {"shown", "verified"} /\ s_proof.device_proof.some) =>
        /\ s_proof.device_proof.proof.digest = s_in.proof_spec.presentation_message.bytes
        /\ s_in.device_signature.bytes.digest = s_in.proof_spec.presentation_message.bytes

HonestDeviceAccepted ==
    DeviceBoundVerified /\ Accepted /\ s_vin.tamper = "none"
    /\ s_vin.show_proof.device_proof.some


\* the DeviceProof handed to DeviceProof::verify and the other arguments of
\* the call
VerifiedDeviceProof == s_vin.show_proof.device_proof.proof

DeviceCom0 == s_vin.show_proof.show_groth16.commited_inputs[2]

DeviceCom1 == s_vin.show_proof.show_groth16.commited_inputs[3]

DeviceBases(name) ==
    <<GammaAbc(VerifyingKey(Len(CredentialInputs(s_cs.credtype, 0))),
               IOLocations(s_cs.credtype)[name]),
      VerifyingKey(Len(CredentialInputs(s_cs.credtype, 0))).delta_g1>>

\* DeviceProof::verify was called and returned
DeviceChecked ==
    ShowVerified /\ \E k \in 1..Len(s_ret.log) : s_ret.log[k] = "device"

DevicePassed == s_ret.at # "device"

\* the three proofs of the DeviceProof, each verified by itself
Pi0Verifies ==
    DLogVerify(seed, ro, VerifiedDeviceProof.pi0, CONTEXT_PI0,
               <<DeviceBases("device_key_1_value"), DeviceBases("device_key_0_value")>>,
               <<DeviceCom1, VerifiedDeviceProof.com1>>,
               [some |-> TRUE, pairs |-> <<<<0, 0>>>>]).ok

DeviceChallenge(half) ==
    DeviceChallengeTranscript(half, VerifiedDeviceProof.pi0.c, DeviceCom0,
                              VerifiedDeviceProof.com1, VerifiedDeviceProof.comz,
                              VerifiedDeviceProof.h_Q)

Pi1Verifies ==
    DLogVerify(seed, ro, VerifiedDeviceProof.pi1, CONTEXT_PI1,
               <<<<DeviceBases("device_key_0_value")[2]>>,
                 DeviceBases("device_key_0_value")>>,
               <<FAdd(FAdd(FAdd(DeviceCom0,
                                FMul(VerifiedDeviceProof.com1,
                                     challenge_bytes(seed, ro, DeviceChallenge(1)))),
                           FMul(VerifiedDeviceProof.comz,
                                challenge_bytes(seed, ro, DeviceChallenge(2)))),
                      FMul(DeviceBases("device_key_0_value")[1],
                           FNeg(VerifiedDeviceProof.m))),
                 VerifiedDeviceProof.comz>>,
               [some |-> FALSE, pairs |-> <<>>]).ok

Pi2Verifies ==
    VerifiedDeviceProof.pi2.sat
    /\ VerifiedDeviceProof.pi2.instance =
          <<compute_TU(VerifiedDeviceProof.R, VerifiedDeviceProof.digest),
            VerifiedDeviceProof.h_Q>>

\* C14: DeviceProof::verify returns true only if pi0, pi1 and pi2 all verify,
\* checked in that order with the first failure returning false; the honest
\* DeviceProof verifies; with one bit of digest or of pi2 changed it returns
\* false
C14_DeviceVerifyAllThree ==
    DeviceChecked =>
        /\ DevicePassed <=> (Pi0Verifies /\ Pi1Verifies /\ Pi2Verifies)
        /\ ~DevicePassed => ReturnedFalseEmpty
        /\ ~Pi0Verifies => RoIndex(ro, DeviceChallenge(1)) > Len(ro)
        /\ s_vin.tamper = "none" => DevicePassed
        /\ s_vin.tamper \in {"digest_bit", "pi2_bit"} =>
              Pi0Verifies /\ Pi1Verifies /\ ~Pi2Verifies /\ ~DevicePassed

C14_Witness ==
    DeviceChecked /\ s_vin.tamper = "pi2_bit" /\ Pi0Verifies /\ Pi1Verifies
    /\ ~Pi2Verifies /\ ReturnedFalseEmpty

C14_WitnessDigest ==
    DeviceChecked /\ s_vin.tamper = "digest_bit" /\ ~Pi2Verifies /\ ReturnedFalseEmpty

C14_WitnessPi0 ==
    DeviceChecked /\ s_vin.tamper = "bad_pi0" /\ ~Pi0Verifies /\ ReturnedFalseEmpty

C14_WitnessPi1 ==
    DeviceChecked /\ s_vin.tamper = "bad_device" /\ Pi0Verifies /\ ~Pi1Verifies
    /\ ReturnedFalseEmpty

C14_WitnessHonest ==
    DeviceChecked /\ s_vin.tamper = "none" /\ Pi0Verifies /\ Pi1Verifies
    /\ Pi2Verifies /\ Accepted


\* create_show_proof was called with a device-bound spec and a signature
\* (r, s) that is no signature on the digest under the device's key
InvalidSignatureGiven ==
    /\ ShowCalled
    /\ s_in.proof_spec.device_bound = SomeBool(TRUE)
    /\ s_in.proof_spec.presentation_message.some
    /\ s_in.device_signature.some
    /\ ~SignatureVerifies(ECDSASig(s_in.proof_spec.presentation_message.bytes,
                                   s_in.device_signature.bytes),
                          s_cs.aux.device_pub)

\* C15: DeviceProof::prove returns no proof when (r, s) is not a valid ECDSA
\* signature on the digest under the key: the call aborts
C15_InvalidSignatureAborts ==
    InvalidSignatureGiven => s_pc = "aborted" /\ s_proof = NoShowProof

\* a signature of the device on another message, for a credential that has
\* not expired
C15_Witness ==
    /\ InvalidSignatureGiven /\ s_pc = "aborted"
    /\ s_in.device_signature.bytes.key = DeviceKey
    /\ s_in.device_signature.bytes.digest = OtherMessage.bytes
    /\ s_in.proof_spec = SpecDevice
    /\ CredentialExpiry >= s_in.time_sec

\* a signature of another device on the presentation message
C15_WitnessOtherKey ==
    /\ InvalidSignatureGiven /\ s_pc = "aborted"
    /\ s_in.device_signature.bytes.key = OtherKey
    /\ s_in.proof_spec = SpecDevice
    /\ CredentialExpiry >= s_in.time_sec

\* with the device's signature on the presentation message the same call
\* returns a ShowProof with a DeviceProof
ValidSignatureShown ==
    /\ s_pc = "shown" /\ s_in.proof_spec = SpecDevice
    /\ s_in.device_signature.bytes.key = DeviceKey
    /\ s_proof.device_proof.some


\* ------------------------------------------------------------------------
\* Resolution of the ProofSpec (SpecShow)
\* ------------------------------------------------------------------------
\* the entries of a config file, none when it does not parse
ConfigEntries(config_str) == parse_config(config_str).claims

\* a revealed attribute is absent from the config, or device_bound is true
\* and presentation_message is absent
PolicyViolation(proof_spec, config_str) ==
    \/ \E k \in 1..Len(proof_spec.revealed) :
          proof_spec.revealed[k] \notin DOMAIN ConfigEntries(config_str)
    \/ /\ proof_spec.device_bound = SomeBool(TRUE)
       /\ ~proof_spec.presentation_message.some

RECURSIVE IsSubSeq(_, _)
IsSubSeq(sub, sq) ==
    IF sub = <<>> THEN TRUE
    ELSE IF sq = <<>> THEN FALSE
    ELSE IF Head(sub) = Head(sq) THEN IsSubSeq(Tail(sub), Tail(sq))
    ELSE IsSubSeq(sub, Tail(sq))

InSeq(a, sq) == \E k \in 1..Len(sq) : sq[k] = a

\* device_bound defaults to false, and every requested attribute is in
\* exactly one of hashed (reveal_digest = true) and revealed, in request order
Resolved(ps, proof_spec, config_str) ==
    /\ ps.device_bound = (proof_spec.device_bound = SomeBool(TRUE))
    /\ \A k \in 1..Len(proof_spec.revealed) :
          /\ InSeq(proof_spec.revealed[k], ps.hashed)
                = ConfigEntries(config_str)[proof_spec.revealed[k]].reveal_digest
          /\ InSeq(proof_spec.revealed[k], ps.revealed)
                # InSeq(proof_spec.revealed[k], ps.hashed)
    /\ Len(ps.hashed) + Len(ps.revealed) = Len(proof_spec.revealed)
    /\ IsSubSeq(ps.hashed, proof_spec.revealed)
    /\ IsSubSeq(ps.revealed, proof_spec.revealed)

\* what the claim says of one call of create_proof_spec_internal
ResolvesAsStated(proof_spec, config_str) ==
    IF PolicyViolation(proof_spec, config_str)
    THEN /\ ~create_proof_spec_internal(proof_spec, config_str).ok
         /\ ~create_proof_spec_internal(proof_spec, config_str).panic
    ELSE /\ create_proof_spec_internal(proof_spec, config_str).ok
         /\ Resolved(create_proof_spec_internal(proof_spec, config_str).spec,
                     proof_spec, config_str)

\* C16 (as stated): create_proof_spec_internal returns an error when a
\* revealed attribute is absent from the config or device_bound is true
\* without a presentation_message; the show side returns the error to its
\* caller and verify_show returns false; otherwise the resolution succeeds
\* with device_bound defaulting to false and every requested attribute in
\* exactly one of hashed and revealed, in request order
C16_ResolutionOfProofSpec ==
    /\ ShowCalled =>
          /\ ResolvesAsStated(s_in.proof_spec, s_cs.config_str)
          /\ PolicyViolation(s_in.proof_spec, s_cs.config_str) => s_pc = "error"
    /\ s_pc = "verified" =>
          /\ ResolvesAsStated(s_vin.proof_spec, s_vin.config_str)
          /\ PolicyViolation(s_vin.proof_spec, s_vin.config_str) =>
                ReturnedFalseEmpty /\ s_ret.at = "resolve"

\* the claim holds for the configs that parse and whose reveal_digest
\* entries are booleans
ResolutionWithSoundConfig ==
    /\ ShowCalled =>
          /\ ResolvesAsStated(s_in.proof_spec, s_cs.config_str)
          /\ PolicyViolation(s_in.proof_spec, s_cs.config_str) => s_pc = "error"
    /\ (s_pc = "verified" /\ s_vin.config_str \in {ConfigStr, ConfigStrSpaced}) =>
          /\ ResolvesAsStated(s_vin.proof_spec, s_vin.config_str)
          /\ PolicyViolation(s_vin.proof_spec, s_vin.config_str) =>
                ReturnedFalseEmpty /\ s_ret.at = "resolve"

\* verify_show panics in the resolution of a spec that violates no policy
C16_WitnessPanic ==
    /\ s_pc = "verified" /\ s_vin.config_str = ConfigStrTextDigest
    /\ s_vin.proof_spec = SpecEmail
    /\ ~PolicyViolation(s_vin.proof_spec, s_vin.config_str)
    /\ s_ret.status = "abort" /\ s_ret.at = "resolve"

\* a config that does not parse is an error for a spec that reveals nothing
C16_WitnessNoParse ==
    /\ s_pc = "verified" /\ s_vin.config_str = ConfigStrNoAlg
    /\ s_vin.proof_spec = SpecNothing
    /\ ReturnedFalseEmpty /\ s_ret.at = "resolve"

C16_WitnessShowError ==
    s_pc = "error" /\ s_in.proof_spec = SpecGhost
    /\ PolicyViolation(s_in.proof_spec, s_cs.config_str)

C16_WitnessVerifyFalse ==
    /\ s_pc = "verified" /\ s_vin.proof_spec = SpecDeviceNoMessage
    /\ PolicyViolation(s_vin.proof_spec, s_vin.config_str)
    /\ ReturnedFalseEmpty /\ s_ret.at = "resolve"

\* two attributes, one hashed and one revealed, accepted
C16_WitnessBoth ==
    /\ ShowVerified /\ Accepted /\ s_vin.proof_spec = SpecBoth
    /\ create_proof_spec_internal(s_vin.proof_spec, s_vin.config_str).spec.hashed
          = <<"family_name">>
    /\ create_proof_spec_internal(s_vin.proof_spec, s_vin.config_str).spec.revealed
          = <<"email">>


\* ------------------------------------------------------------------------
\* Pedersen linearity of the show (SpecGroth)
\* ------------------------------------------------------------------------
\* the sum of the randomness rho_i of the commitments of the last show
SumRho ==
    SeqSum([k \in 1..Len(g_cs.committed_input_openings) |->
               g_cs.committed_input_openings[k].r])

\* sum over the Committed positions of L_{i+1} * x_i
CommittedPart ==
    SeqSum([k \in 1..Len(Positions(g_io, Committed)) |->
               FMul(GammaAbc(g_cs.vk, Positions(g_io, Committed)[k]),
                    g_cs.inputs[Positions(g_io, Committed)[k]])])

\* C20: for every io_types and an honest show_groth16, the com_inputs that
\* ShowGroth16::verify computes is L_0 + sum over all positions of
\* L_{i+1} * x_i + delta * (z + sum of rho_i), and the sum of the Committed
\* commitments is sum over the Committed positions of L_{i+1} * x_i
\* + delta * (sum of rho_i)
C20_PedersenLinearity ==
    HonestShowVerified =>
        /\ g_res.com_inputs =
              FAdd(PreparedInputs(g_cs.vk, g_cs.inputs),
                   FMul(g_cs.vk.delta_g1, FAdd(g_cs.input_com_randomness.z, SumRho)))
        /\ SeqSum(g_show.commited_inputs) =
              FAdd(CommittedPart, FMul(g_cs.vk.delta_g1, SumRho))

\* all three kinds of position, with randomness that does not cancel
C20_Witness ==
    /\ HonestShowVerified
    /\ g_io = <<Committed, Hidden, Revealed>>
    /\ SumRho # 0
    /\ g_cs.input_com_randomness.z # 0
    /\ g_res.com_inputs # PreparedInputs(g_cs.vk, g_cs.inputs)
    /\ g_res.com_inputs =
          FAdd(PreparedInputs(g_cs.vk, g_cs.inputs),
               FMul(g_cs.vk.delta_g1, FAdd(g_cs.input_com_randomness.z, SumRho)))

\* two Committed positions
C20_WitnessTwoCommitted ==
    /\ HonestShowVerified
    /\ g_io = <<Committed, Committed, Hidden>>
    /\ Len(g_show.commited_inputs) = 2
    /\ SeqSum(g_show.commited_inputs) = FAdd(CommittedPart, FMul(g_cs.vk.delta_g1, SumRho))


\* ------------------------------------------------------------------------
\* The public inputs of the verifier (SpecLayout)
\* ------------------------------------------------------------------------
\* the ProofSpec the verifier resolved
LayoutSpec == create_proof_spec_internal(s_vin.proof_spec, s_vin.config_str).spec

\* the io_types of the verifier
LayoutIoTypes ==
    ShowIoTypes(s_in.io_locations, s_vin.show_proof.inputs_len,
                ExpLabel(s_cs.credtype),
                IF s_cs.credtype = "mdl" THEN RangeAttrs(LayoutSpec) ELSE <<>>,
                LayoutSpec.revealed,
                sort_by_io_location(LayoutSpec.hashed, s_in.io_locations),
                LayoutSpec.device_bound)

\* the public_inputs the verifier hands to ShowGroth16::verify
LayoutPublicInputs ==
    AssembleInputs(sort_by_io_location(LayoutSpec.hashed, s_in.io_locations),
                   s_vin.show_proof.revealed_preimages.map,
                   pem_to_inputs(s_vin.issuer_pem).v,
                   s_vin.show_proof.revealed_inputs)

\* the verifier called ShowGroth16::verify
Groth16Called == s_pc = "verified" /\ s_ret.at \notin {"io_types", "resolve", "range_attrs", "revealed", "preimages", "device_keys", "issuer_key"}

\* public_inputs has one value for each Revealed position, and the k-th value
\* is the input of the credential at the k-th Revealed position
InputsLineUp ==
    /\ Len(LayoutPublicInputs) = Len(Positions(LayoutIoTypes, Revealed))
    /\ \A k \in 1..Len(LayoutPublicInputs) :
          LayoutPublicInputs[k] = s_cs.inputs[Positions(LayoutIoTypes, Revealed)[k]]

\* C21: for every order of the attributes in revealed and every io-locations
\* table, the public_inputs that verify_show / verify_show_mdl assemble
\* (digests by location, issuer key, revealed_inputs in the order of the
\* ProofSpec) line up with the ascending walk of ShowGroth16::verify over the
\* Revealed positions: the basis L_{i+1} of every Revealed position i is
\* multiplied by the value of that input
C21_PublicInputsLineUp == Groth16Called => InputsLineUp

\* the values line up whenever the Revealed locations of the digests, the
\* issuer key and the revealed attributes ascend in this order, and then the
\* show passes ShowGroth16::verify
LocationsAscend ==
    LET io == s_in.io_locations
        locs == Locations(io, sort_by_io_location(LayoutSpec.hashed, io), "_digest")
                \o <<io[KeyLabel(s_cs.credtype)]>>
                \o Locations(io, LayoutSpec.revealed, "_value")
    IN \A k \in 1..(Len(locs) - 1) : locs[k] < locs[k + 1]

LinedUpWhenAscending ==
    Groth16Called => /\ InputsLineUp <=> LocationsAscend
                     /\ InputsLineUp => s_ret.at # "show_groth16"

\* two revealed values in the order of their locations: accepted
C21_WitnessAscending ==
    /\ Groth16Called
    /\ s_in.io_locations = IOLocations("mdl")
    /\ s_in.proof_spec = SpecBirthEmail
    /\ InputsLineUp
    /\ s_ret.status = "ret" /\ s_ret.ok

\* the same two values in the other order: the honest show is rejected
C21_WitnessReversed ==
    /\ Groth16Called
    /\ s_in.io_locations = IOLocations("mdl")
    /\ s_in.proof_spec = SpecEmailBirth
    /\ ~InputsLineUp
    /\ s_ret.status = "ret" /\ ~s_ret.ok
    /\ s_ret.at = "show_groth16"

\* a table with the digest after the issuer key: rejected
C21_WitnessDigestAfterKey ==
    /\ Groth16Called
    /\ s_cs.credtype = "jwt"
    /\ s_in.io_locations["modulus_0"] < s_in.io_locations["family_name_digest"]
    /\ s_in.proof_spec = SpecFamilyName
    /\ ~InputsLineUp
    /\ s_ret.status = "ret" /\ ~s_ret.ok
    /\ s_ret.at = "show_groth16"


\* ------------------------------------------------------------------------
\* The slots of the Committed openings (SpecLayout)
\* ------------------------------------------------------------------------
\* the ProofSpec the holder resolved
HolderSpec == create_proof_spec_internal(s_in.proof_spec, s_cs.config_str).spec

\* show_groth16 ran in the holder's call and left its openings
ShowGroth16Ran == s_pc # "ready" /\ s_cs.committed_input_openings # <<>>

\* slot k (0-based) of committed_input_openings is the opening of the
\* commitment to the input with this label
SlotIsInput(k, label) ==
    /\ Len(s_cs.committed_input_openings) > k
    /\ s_cs.committed_input_openings[k + 1].bases[1] =
          GammaAbc(s_cs.vk, s_in.io_locations[label])
    /\ s_cs.committed_input_openings[k + 1].m = s_cs.inputs[s_in.io_locations[label]]

\* the commitments of the ShowProof are those of the openings, slot by slot
SlotsSent ==
    /\ Len(s_proof.show_groth16.commited_inputs) = Len(s_cs.committed_input_openings)
    /\ \A k \in 1..Len(s_cs.committed_input_openings) :
          s_proof.show_groth16.commited_inputs[k] = s_cs.committed_input_openings[k].c

\* C22: in every show, for every io-locations table and every resolved
\* ProofSpec, slot 0 of the Committed openings (of the holder, and of the
\* commitments sent to the verifier) is the commitment to the expiration
\* input, and for a device-bound spec slots 1 and 2 are device_key_0 and
\* device_key_1
C22_SlotZeroIsExpiry ==
    ShowGroth16Ran =>
        /\ SlotIsInput(0, ExpLabel(s_cs.credtype))
        /\ HolderSpec.device_bound =>
              /\ SlotIsInput(1, "device_key_0_value")
              /\ SlotIsInput(2, "device_key_1_value")
        /\ s_pc \in {"shown", "verified"} => SlotsSent

\* the locations of the Committed inputs of the holder's spec in the order
\* expiry, device keys, range-proved attributes
SlotLocations ==
    LET io == s_in.io_locations
    IN <<io[ExpLabel(s_cs.credtype)]>>
       \o (IF HolderSpec.device_bound
           THEN <<io["device_key_0_value"], io["device_key_1_value"]>> ELSE <<>>)
       \o (IF s_cs.credtype = "mdl"
           THEN Locations(io, RangeAttrs(HolderSpec), "_value") ELSE <<>>)

\* the openings are in ascending order of the locations: the slots are as
\* stated exactly when the locations of expiry, device keys and range-proved
\* attributes ascend in this order
SlotsFollowLocations ==
    ShowGroth16Ran =>
        /\ Len(s_cs.committed_input_openings) = Len(SlotLocations)
        /\ \A k \in 1..Len(SlotLocations) :
              \E j \in 1..Len(SlotLocations) :
                 /\ s_cs.committed_input_openings[k].bases[1] =
                       GammaAbc(s_cs.vk, SlotLocations[j])
                 /\ Cardinality({ i \in 1..Len(SlotLocations) :
                                     SlotLocations[i] < SlotLocations[j] }) = k - 1
        /\ s_pc \in {"shown", "verified"} => SlotsSent

\* a table with device_key_0 before the expiry, device-bound spec: slot 0 is
\* the commitment to device_key_0
C22_WitnessDeviceKeyFirst ==
    /\ ShowGroth16Ran
    /\ s_cs.credtype = "jwt"
    /\ s_in.proof_spec = SpecDevice
    /\ s_in.io_locations["device_key_0_value"] < s_in.io_locations["exp_value"]
    /\ SlotIsInput(0, "device_key_0_value")
    /\ ~SlotIsInput(0, "exp_value")

\* the table of IOLocations, device-bound spec: the slots are as stated
C22_WitnessStandard ==
    /\ s_pc = "verified"
    /\ s_in.io_locations = IOLocations("jwt")
    /\ s_in.proof_spec = SpecDevice
    /\ SlotIsInput(0, "exp_value")
    /\ SlotIsInput(1, "device_key_0_value")
    /\ SlotIsInput(2, "device_key_1_value")
    /\ SlotsSent
    /\ s_ret.ok


\* ------------------------------------------------------------------------
\* The slots of the range-proved attributes (SpecLayout)
\* ------------------------------------------------------------------------
\* the holder of an mDL ran show_groth16 for a spec with range predicates
RangeSpecShown ==
    /\ ShowGroth16Ran
    /\ s_cs.credtype = "mdl"
    /\ HolderSpec.range_over_year # <<>>

\* C23: in create_show_proof_mdl and verify_show_mdl, for every resolved
\* ProofSpec, with or without device binding, the slot 3 + k of the Committed
\* openings exists and is the opening of the attribute of the k-th
\* range_over_year predicate, the one its range proof is built and verified
\* over
C23_RangeSlotIsOwnAttribute ==
    RangeSpecShown =>
        \A k \in 1..Len(HolderSpec.range_over_year) :
            SlotIsInput(k + 2, HolderSpec.range_over_year[k][1] \o "_value")

\* with device binding and the locations of expiry, device keys and
\* attribute ascending, slot 3 is the attribute and the show is accepted
RangeSlotWithDevice ==
    (/\ RangeSpecShown
     /\ HolderSpec.device_bound
     /\ \A k \in 1..(Len(SlotLocations) - 1) : SlotLocations[k] < SlotLocations[k + 1])
    => /\ SlotIsInput(3, "birth_date_value")
       /\ s_pc # "aborted"
       /\ s_pc = "verified" => s_ret.ok

\* without device binding there are two openings, slot 3 does not exist and
\* create_show_proof_mdl panics
C23_WitnessNoDevice ==
    /\ RangeSpecShown
    /\ s_in.io_locations = IOLocations("mdl")
    /\ s_in.proof_spec = SpecAgeNoDevice
    /\ Len(s_cs.committed_input_openings) = 2
    /\ SlotIsInput(1, "birth_date_value")
    /\ s_pc = "aborted"

\* no show with a range predicate and without device binding returns
RangeWithoutDeviceAborts ==
    (RangeSpecShown /\ ~HolderSpec.device_bound) => s_pc = "aborted"

\* with device binding and the table of IOLocations the show is accepted
C23_WitnessWithDevice ==
    /\ RangeSpecShown
    /\ s_in.io_locations = IOLocations("mdl")
    /\ s_in.proof_spec = SpecAge
    /\ SlotIsInput(3, "birth_date_value")
    /\ s_pc = "verified"
    /\ s_ret.ok


\* ------------------------------------------------------------------------
\* The openings of the holder (SpecLayout)
\* ------------------------------------------------------------------------
\* c = bases[0] * m + bases[1] * r
OpeningHolds(o) == o.c = FAdd(FMul(o.bases[1], o.m), FMul(o.bases[2], o.r))

\* the holder's call returned a ShowProof
ShowReturned == s_pc \in {"shown", "verified"}

\* the opening of the expiry range proof: slot 0 shifted by cur_time
ShiftedExpiry == ShiftOpening(s_cs.committed_input_openings[1], s_proof.cur_time % P)

\* the commitment the verifier derives for the expiry range proof
VerifierExpiryCom ==
    FSub(s_proof.show_groth16.commited_inputs[1],
         FMul(GammaAbc(s_cs.vk, s_in.io_locations[ExpLabel(s_cs.credtype)]),
              s_proof.cur_time % P))

\* the opening of the k-th age range proof (k from 1): slot 3 + (k - 1)
\* shifted by days_to_be_age(age)
ShiftedAttr(k) ==
    ShiftOpening(s_cs.committed_input_openings[k + 3],
                 days_to_be_age(Today, HolderSpec.range_over_year[k][2]) % P)

\* the commitment the verifier derives for the k-th age range proof
VerifierAttrCom(k) ==
    FSub(s_proof.show_groth16.commited_inputs[k + 3],
         FMul(GammaAbc(s_cs.vk,
                       s_in.io_locations[HolderSpec.range_over_year[k][1] \o "_value"]),
              days_to_be_age(Today, HolderSpec.range_over_year[k][2]) % P))

ReturnedShowsHaveSlots ==
    ShowReturned =>
        /\ SlotIsInput(0, ExpLabel(s_cs.credtype))
        /\ \A k \in 1..Len(s_proof.show_range_attr) :
              SlotIsInput(k + 2, HolderSpec.range_over_year[k][1] \o "_value")

\* ------------------------------------------------------------------------
\* C25: the outcome of ECDSAProof::verify depends on all six public values
\* T, U, h_Q, m, e_1, e_2: a proof pi2 that ECDSAProof::prove produced for
\* (m, e_1, e_2) is rejected when verify is called with a different m, a
\* different e_1 or a different e_2
\* ------------------------------------------------------------------------
PopVerified == p_pc = "verified"

SameInstance ==
    /\ p_vin.R = p_in.sig.r_s.R
    /\ p_vin.digest = p_in.sig.digest
    /\ p_vin.h_Q = p_in.h_Q

SameM == p_vin.m = p_in.m /\ p_vin.e1 = p_in.e1 /\ p_vin.e2 = p_in.e2

C25_RejectsOtherMOrChallenge == PopVerified /\ ~SameM => ~p_res

\* what verify does decide on: the proof is one of a satisfied circuit and
\* (R, digest, hQ) are the prover's; m, e1 and e2 have no part in the outcome
VerifyDecidesOnInstanceOnly == PopVerified => (p_res <=> (p_pi2.sat /\ SameInstance))

\* a proof for (m, e1, e2) accepted under another m, another e1 and another e2
AcceptedUnderOtherM ==
    /\ PopVerified
    /\ p_res
    /\ p_vin.m # p_in.m
    /\ p_vin.e1 # p_in.e1
    /\ p_vin.e2 # p_in.e2

\* the same call with the prover's own values is accepted, and a call with
\* another hQ is rejected
AcceptedUnderOwnValues == PopVerified /\ SameInstance /\ SameM /\ p_res

RejectedUnderOtherInstance == PopVerified /\ p_pi2.sat /\ ~SameInstance /\ ~p_res

\* ------------------------------------------------------------------------
\* C26: after any sequence of show_groth16 calls on one ClientState,
\* committed_input_openings holds exactly one opening per Committed position
\* of the most recent call, in ascending position order; openings of earlier
\* calls are not retained
\* ------------------------------------------------------------------------
ShowGroth16Called == g_pc \in {"shown", "reshown", "verified", "aborted"}

\* o is an opening of input i of the ClientState on that input's bases
OpeningOfInput(o, i) ==
    /\ o.m = g_cs.inputs[i]
    /\ o.bases = <<GammaAbc(g_cs.vk, i), g_cs.vk.delta_g1>>
    /\ o.c = msm_select(o.bases, <<o.m, o.r>>)

OpeningsOfLastCall ==
    LET ci == Positions(g_io, Committed)
        openings == g_cs.committed_input_openings
    IN /\ Len(openings) = Len(ci)
       /\ \A k \in 1..Len(ci) : OpeningOfInput(openings[k], ci[k])
       /\ \A k \in 1..(Len(ci) - 1) : ci[k] < ci[k + 1]

C26_OpeningsOfMostRecentCall == ShowGroth16Called => OpeningsOfLastCall

\* after a second call: openings of the first and the last input, in this order
C26_Witness ==
    /\ g_pc = "reshown"
    /\ Positions(g_io, Committed) = <<1, NumInputs>>
    /\ Len(g_cs.committed_input_openings) = 2
    /\ OpeningOfInput(g_cs.committed_input_openings[2], NumInputs)

\* after a second call without Committed inputs no opening is left
C26_WitnessNoneLeft ==
    /\ g_pc = "reshown"
    /\ Positions(g_io, Committed) = <<>>
    /\ g_cs.committed_input_openings = <<>>

\* ------------------------------------------------------------------------
\* C27: in the client helper no two /show requests mutate the same
\* ClientState: each works on its own deserialized copy while holding the
\* shared-state lock, and the stored ShowData is unchanged by /show
\* ------------------------------------------------------------------------
ShowInProgress(r) == h_req[r].pc \in {"locked", "proved"}

\* the ClientState that the stored ShowData of a cred_uid deserializes to
StoredClientState(cred_uid) ==
    read_from_b64url(h_tasks[cred_uid].show_data.client_state_b64).v

ShowsHoldLock == \A r \in ShowRequests : ShowInProgress(r) => h_lock = r

\* the request's ClientState is the deserialized one, changed by its own
\* create_show_proof at most
ShowsOwnCopy ==
    \A r \in ShowRequests :
       ShowInProgress(r) =>
          /\ h_req[r].cred_uid \in DOMAIN h_tasks
          /\ h_tasks[h_req[r].cred_uid].some
          /\ [h_req[r].client_state EXCEPT !.committed_input_openings = <<>>]
                = StoredClientState(h_req[r].cred_uid)
          /\ h_req[r].pc = "locked" =>
                h_req[r].client_state = StoredClientState(h_req[r].cred_uid)

StoredShowDataUnchanged ==
    \A u \in DOMAIN h_tasks :
       h_tasks[u].some => h_tasks[u].show_data = TaskShowData(seed, u)

C27_ShowsWorkOnOwnCopy == ShowsHoldLock /\ ShowsOwnCopy /\ StoredShowDataUnchanged

\* a second /show of a cred_uid has changed its ClientState after a first one
\* returned a proof, and the stored one is as the task stored it
C27_Witness ==
    /\ h_req[1].pc = "done"
    /\ h_req[1].outcome = "ok"
    /\ h_req[2].pc = "proved"
    /\ h_req[2].cred_uid = h_req[1].cred_uid
    /\ Len(h_req[2].client_state.committed_input_openings) > 0
    /\ StoredClientState(h_req[2].cred_uid).committed_input_openings = <<>>
    /\ h_lock = 2

\* ------------------------------------------------------------------------
\* C28: /status returns "preparing" for a cred_uid from the time /prepare
\* registers it until its background task ends, "ready" only after that task
\* stored ShowData, and "unknown" if the cred_uid was never registered or its
\* task failed; /getshowdata and /show return data only while it is "ready"
\* ------------------------------------------------------------------------
TaskInProgress(pc) == pc \in {"running", "computed", "failing"}

StatusMatchesTask ==
    /\ \A u \in Uids :
          /\ TaskInProgress(h_task[u]) => StatusOf(h_tasks, u) = "preparing"
          /\ StatusOf(h_tasks, u) = "preparing" => TaskInProgress(h_task[u])
          /\ StatusOf(h_tasks, u) = "ready" => h_task[u] = "stored"
          /\ h_task[u] \in {"none", "failed", "panicked"} =>
                StatusOf(h_tasks, u) = "unknown"
    /\ \A u \in RequestUids \ Uids : StatusOf(h_tasks, u) = "unknown"

\* a response of /getshowdata or /show that carries data
DataReturned(resp) == resp.kind \in {"getshowdata", "show"} /\ resp.ok

DataOnlyWhileReady ==
    (h_resp' # h_resp /\ DataReturned(h_resp')) =>
        StatusOf(h_tasks, h_resp'.cred_uid) = "ready"

C28_StatusFollowsTask == []StatusMatchesTask /\ [][DataOnlyWhileReady]_vars

\* the parts that hold: data is returned only while "ready"
DataReturnedOnlyWhileReady == [][DataOnlyWhileReady]_vars

\* "ready" only after the task stored ShowData; "unknown" for a cred_uid that
\* was never registered or whose task returned an Err and removed the entry
ReadyOnlyAfterStore ==
    /\ \A u \in Uids :
          /\ StatusOf(h_tasks, u) = "ready" => h_task[u] = "stored"
          /\ h_task[u] \in {"none", "failed"} => StatusOf(h_tasks, u) = "unknown"
    /\ \A u \in RequestUids \ Uids : StatusOf(h_tasks, u) = "unknown"

\* without a /delete request and without a panic of the task the status
\* follows the task
StatusMatchesUndisturbedTask ==
    \A u \in Uids :
       (h_del[u] = "idle" /\ h_task[u] # "panicked") =>
          /\ TaskInProgress(h_task[u]) <=> StatusOf(h_tasks, u) = "preparing"
          /\ h_task[u] = "stored" <=> StatusOf(h_tasks, u) = "ready"

\* the task has panicked, no /delete was requested, and the cred_uid stays
\* "preparing"
PreparingAfterPanic ==
    \E u \in Uids :
       /\ h_task[u] = "panicked"
       /\ h_del[u] = "idle"
       /\ StatusOf(h_tasks, u) = "preparing"
       /\ h_resp = [kind |-> "status", cred_uid |-> u, ok |-> TRUE,
                    body |-> "preparing"]

\* nothing but /delete ends it
PanickedStaysPreparing ==
    \A u \in Uids :
       (h_task[u] = "panicked" /\ h_del[u] \in {"idle", "removed", "missing"}) =>
          StatusOf(h_tasks, u) = "preparing"

\* ------------------------------------------------------------------------
\* C29: once a /delete request for a cred_uid has completed, /status never
\* again reports "preparing" or "ready" for it and /show never succeeds for
\* it, also when /delete runs while the background task is in progress
\* ------------------------------------------------------------------------
C29_DeletedStaysDeleted ==
    /\ \A u \in Uids :
          DeleteCompleted(h_del[u]) => StatusOf(h_tasks, u) = "unknown"
    /\ \A r \in ShowRequests : ~h_req[r].deleted_before

\* it holds for a /delete that completes after the task has ended
DeletedAfterTaskStays ==
    \A u \in Uids :
       h_del[u] = "deleted" =>
          /\ StatusOf(h_tasks, u) = "unknown"
          /\ \A r \in ShowRequests :
                h_req[r].cred_uid = u => ~h_req[r].deleted_before

\* /delete completed while the task ran, the task stored its ShowData, the
\* cred_uid is "ready" and a /show of it has returned a proof
ShownAfterDelete ==
    \E u \in Uids, r \in ShowRequests :
       /\ h_del[u] = "deleted_early"
       /\ h_task[u] = "stored"
       /\ StatusOf(h_tasks, u) = "ready"
       /\ h_req[r].cred_uid = u
       /\ h_req[r].deleted_before
       /\ h_req[r].outcome = "ok"

\* a /delete that completed while the task ran is undone by a task that
\* stores, and by nothing else
DeletedEarlyReadyOnlyByStore ==
    \A u \in Uids :
       (h_del[u] = "deleted_early" /\ StatusOf(h_tasks, u) # "unknown") =>
          (h_task[u] = "stored" /\ StatusOf(h_tasks, u) = "ready")

\* ------------------------------------------------------------------------
\* C30: in the sample verifier, validation_results has an entry for a
\* session_id only if that session_id was issued (is in active_session_ids)
\* and a submitted proof was accepted with presentation_message =
\* SHA-256(session_id); /resource and /signup2 serve protected content only
\* for such session ids or for the literal id "test"
\* ------------------------------------------------------------------------
\* the proof recorded for session_id verifies under the site's ProofSpec with
\* the digest of session_id as presentation message
AcceptedForSession(session_id) ==
    /\ session_id \in DOMAIN v_accepted
    /\ \E out \in { verify_show(seed, ro,
                       VerifierParams("jwt", seed, IssuerPem, ConfigStr),
                       v_accepted[session_id].show_proof,
                       [Site1ProofSpec EXCEPT
                           !.presentation_message = SomeCtx(Sha256Digest(session_id))],
                       v_accepted[session_id].now_seconds) } :
          out.status = "ret" /\ out.ok

ResultsOnlyForAccepted ==
    \A session_id \in DOMAIN v_results :
       session_id \in v_sessions /\ AcceptedForSession(session_id)

ServedOnlyForValidated ==
    (v_resp.kind \in {"resource", "signup2"} /\ v_resp.served) =>
        \/ v_resp.session_id = "test"
        \/ /\ v_resp.session_id \in DOMAIN v_results
           /\ v_resp.session_id \in v_sessions
           /\ AcceptedForSession(v_resp.session_id)

C30_ResultsOnlyForAcceptedSessions == ResultsOnlyForAccepted /\ ServedOnlyForValidated

\* /resource has served the page of a session whose proof was accepted, and
\* another issued session has no result
C30_Witness ==
    /\ v_resp = [kind |-> "resource", session_id |-> "sid-1", served |-> TRUE]
    /\ DOMAIN v_results = {"sid-1"}
    /\ "sid-2" \in v_sessions

\* /signup2 refuses an issued session without a result
C30_WitnessRefused ==
    /\ v_resp = [kind |-> "signup2", session_id |-> "sid-2", served |-> FALSE]
    /\ "sid-2" \in v_sessions
    /\ "sid-1" \in DOMAIN v_results

\* the accepted proof is one the holder made for this very session
AcceptedProofMadeForSession ==
    \A session_id \in DOMAIN v_accepted :
       v_accepted[session_id].challenge = session_id

====
